---- MODULE Spec2Model ----
(***************************************************************************)
(* Semantic cache gateway: the two-tier caching pipeline.                  *)
(*                                                                         *)
(* The model follows internal/handler/handler.go (the pipeline controller),*)
(* internal/cache/cache.go and redis_client.go (cache service and store    *)
(* adapter), internal/models/request.go (query normaliser), the embedding  *)
(* client and the upstream proxy.  Every request is a task that advances   *)
(* from one blocking call to the next; write-behind tasks run on their own.*)
(*                                                                         *)
(* Byte strings (request query, response bodies, hashes, keys) are         *)
(* sequences of string tokens; similarities are fixed-point hundredths.    *)
(***************************************************************************)
EXTENDS Integers, Sequences, FiniteSets, TLC

\* ------------------------------------------------------------------ bounds

\* Number of requests the gateway receives in one run.
MaxReq == 2

\* Length of an embedding vector (the configured dimension, scaled down).
Dimensions == 2

Requests == 1..MaxReq

\* ------------------------------------------------------- program constants

\* handler.New: the threshold used when none is configured (0.95).
DefaultThreshold == 95

\* config.Load: SIMILARITY_THRESHOLD as configured for this run (0.95).
SimilarityThreshold == 95

StatusOK == 200
StatusBadRequest == 400
StatusBadGateway == 502

\* ------------------------------------------------------------------ values

\* A pointer, slice or optional result: Nil, or Some(x) holding x.
Nil == <<>>
Some(x) == <<x>>
IsNil(p) == p = <<>>
Deref(p) == p[1]

\* A string of the program is a sequence of tokens; "" is the empty sequence.
EmptyString == <<>>

\* ------------------------------------------------------- query normaliser

Message(role, content) == [role |-> role, content |-> content]

RECURSIVE UserParts(_)
\* ExtractQueryText, the loop: the contents of the user messages, in order.
UserParts(messages) ==
  IF messages = <<>> THEN <<>>
  ELSE IF Head(messages).role = "user"
       THEN <<Head(messages).content>> \o UserParts(Tail(messages))
       ELSE UserParts(Tail(messages))

RECURSIVE Join(_, _)
\* strings.Join(parts, sep)
Join(parts, sep) ==
  IF parts = <<>> THEN EmptyString
  ELSE IF Len(parts) = 1 THEN parts[1]
       ELSE parts[1] \o sep \o Join(Tail(parts), sep)

\* Mutation of ExtractQueryText: the contents of all messages are joined,
\* whatever their role.
ExtractQueryText_AllRoles(chatReq) ==
  IF IsNil(chatReq) THEN EmptyString
  ELSE Join([i \in 1..Len(Deref(chatReq).messages) |->
               Deref(chatReq).messages[i].content], <<" ">>)

\* Mutation of ExtractQueryText: only the last user message is returned.
ExtractQueryText_LastUserOnly(chatReq) ==
  IF IsNil(chatReq) THEN EmptyString
  ELSE LET parts == UserParts(Deref(chatReq).messages)
       IN IF parts = <<>> THEN EmptyString ELSE parts[Len(parts)]

ExtractQueryText(chatReq) ==
  IF IsNil(chatReq) THEN EmptyString
  ELSE Join(UserParts(Deref(chatReq).messages), <<" ">>)

RECURSIVE Concat(_)
\* The tokens of a string written out as one string.
Concat(s) == IF s = <<>> THEN "" ELSE Head(s) \o Concat(Tail(s))

\* The byte value of a character of the model's alphabet.
ByteOf(c) ==
  CASE c = "a" -> 1
    [] c = "b" -> 2
    [] c = "c" -> 3
    [] c = " " -> 4
    [] c = "s" -> 5
    [] c = "x" -> 6
    [] OTHER -> 7

\* The size of a SHA-256 digest in bytes.
DigestSize == 32

\* sha256.Sum256(data): DigestSize bytes.  The compression function is
\* replaced by one that keeps the texts of the model apart: the digest
\* carries the characters of the text, two to a byte.
Sum256(data) ==
  [i \in 1..DigestSize |->
     LET lo == IF 2 * i - 1 <= Len(data) THEN ByteOf(data[2 * i - 1]) ELSE 0
         hi == IF 2 * i <= Len(data) THEN ByteOf(data[2 * i]) ELSE 0
     IN lo + 16 * hi]

\* encoding/hex: the digits of hex.EncodeToString.
Hextable ==
  << "0", "1", "2", "3", "4", "5", "6", "7",
     "8", "9", "a", "b", "c", "d", "e", "f" >>

\* hex.EncodeToString(src) character by character: two digits per byte.
EncodeToString(src) ==
  [i \in 1..(2 * Len(src)) |->
     IF i % 2 = 1 THEN Hextable[(src[(i + 1) \div 2] \div 16) + 1]
     ELSE Hextable[(src[i \div 2] % 16) + 1]]

\* hex.EncodeToString(hash[:]) of the SHA-256 digest, as one string.
Sha256Hex(queryText) == Concat(EncodeToString(Sum256(queryText)))

ComputeQueryHash(queryText) == <<"sha256:", Sha256Hex(queryText)>>

\* strings.TrimPrefix(s, prefix) for a one-token prefix
TrimPrefix(s, prefix) ==
  IF Len(s) > 0 /\ s[1] = prefix THEN Tail(s) ELSE s

\* Mutation of CacheKeyFromHash: the sha256: prefix stays in the key.
CacheKeyFromHash_KeepPrefix(queryHash) == <<"cache:">> \o queryHash

CacheKeyFromHash(queryHash) == <<"cache:">> \o TrimPrefix(queryHash, "sha256:")

\* ------------------------------------------------------------ request bodies

\* The buffered request bodies a client can send.  kind "nil": no buffered
\* body in the context; "empty": zero bytes; "malformed": JSON that does not
\* decode into the chat-completion envelope; "envelope": a decodable envelope.
Envelope(messages) == [kind |-> "envelope", messages |-> messages]

QueryA == <<"a">>
QueryB == <<"b">>
QueryC == <<"c">>

RequestBodies ==
  { [kind |-> "nil", messages |-> <<>>],
    [kind |-> "empty", messages |-> <<>>],
    [kind |-> "malformed", messages |-> <<>>],
    Envelope(<<Message("system", <<"s">>)>>),
    Envelope(<<Message("user", EmptyString)>>),
    Envelope(<<Message("user", EmptyString), Message("user", EmptyString)>>),
    Envelope(<<Message("system", <<"s">>), Message("user", QueryA)>>),
    Envelope(<<Message("user", QueryB), Message("assistant", <<"x">>)>>),
    Envelope(<<Message("user", QueryC)>>) }

\* json.Unmarshal(bodyBytes, &chatReq): the decoded envelope, or an error.
UnmarshalRequest(bodyBytes) ==
  IF bodyBytes.kind = "envelope"
  THEN [err |-> FALSE, chatReq |-> Some([messages |-> bodyBytes.messages])]
  ELSE [err |-> TRUE, chatReq |-> Nil]

\* ---------------------------------------------------------------- embeddings

\* The direction the embedding service gives a text; two texts with the same
\* direction have cosine distance 0.
Direction(text) ==
  CASE text = QueryA -> 1
    [] text = QueryB -> 2
    [] text = QueryC -> 3
    [] OTHER -> 4

\* A vector of n float32 components for the text.
VectorOf(text, n) == [i \in 1..n |-> Direction(text)]

\* What the embedding endpoint can answer: a transport failure, an API error
\* or non-200 status, or a data array holding one vector of some length.
EmbeddingReplies ==
  { [kind |-> "transport", len |-> 0],
    [kind |-> "api_error", len |-> 0],
    [kind |-> "data", len |-> Dimensions],
    [kind |-> "data", len |-> Dimensions - 1] }

\* Mutation of Generate: the length of the returned vector is not checked.
Generate_NoDimensionCheck(text, reply) ==
  IF text = EmptyString THEN [err |-> TRUE, vec |-> Nil]
  ELSE IF reply.kind # "data" THEN [err |-> TRUE, vec |-> Nil]
  ELSE [err |-> FALSE, vec |-> Some(VectorOf(text, reply.len))]

\* embedding.Service.Generate(ctx, text) under the endpoint's reply.
Generate(text, reply) ==
  IF text = EmptyString THEN [err |-> TRUE, vec |-> Nil]
  ELSE IF reply.kind # "data" THEN [err |-> TRUE, vec |-> Nil]
  ELSE IF reply.len # Dimensions THEN [err |-> TRUE, vec |-> Nil]
  ELSE [err |-> FALSE, vec |-> Some(VectorOf(text, reply.len))]

\* ------------------------------------------------------------ cache entries

\* cache.CacheEntry
CacheEntry(id, queryHash, queryText, embedding, llmResponse, createdAt) ==
  [id |-> id, query_hash |-> queryHash, user_query |-> queryText,
   embedding |-> embedding, llm_response |-> llmResponse,
   created_at |-> createdAt]

\* A body token that is not valid UTF-8 (compressed or binary upstream bytes).
InvalidUTF8 == "\\xff"
ReplacementChar == "\\ufffd"

\* json.Marshal of a Go string: invalid UTF-8 is coerced to U+FFFD.
MarshalString(s) ==
  [i \in 1..Len(s) |-> IF s[i] = InvalidUTF8 THEN ReplacementChar ELSE s[i]]

\* json.Marshal(entry) as JSONSet sends it: the JSON document of the entry.
MarshalEntry(entry) ==
  [id |-> MarshalString(entry.id),
   query_hash |-> MarshalString(entry.query_hash),
   user_query |-> MarshalString(entry.user_query),
   embedding |-> entry.embedding,
   llm_response |-> MarshalString(entry.llm_response),
   created_at |-> entry.created_at]

\* json.Unmarshal of a stored document into a CacheEntry.
UnmarshalEntry(doc) ==
  CacheEntry(doc.id, doc.query_hash, doc.user_query, doc.embedding,
             doc.llm_response, doc.created_at)

\* ------------------------------------------------------------ store adapter

\* The store: a partial function from keys to JSON documents.
EmptyStore == <<>>

\* RedisClient.Exists
Exists(store, key) == key \in DOMAIN store

\* RedisClient.JSONGet(key, "$"): the array of matches, nil when there is none.
JSONGet(store, key) ==
  IF key \in DOMAIN store THEN Some(<<store[key]>>) ELSE Nil

\* Mutation of JSONSet: an existing document is patched field by field and
\* keeps its llm_response, so a second write leaves a mixture of two entries.
JSONSet_Patch(store, key, entry) ==
  [k \in DOMAIN store \cup {key} |->
     IF k # key THEN store[k]
     ELSE IF key \in DOMAIN store
          THEN [MarshalEntry(entry) EXCEPT !.llm_response = store[key].llm_response]
          ELSE MarshalEntry(entry)]

\* RedisClient.JSONSet(key, "$", value): atomic overwrite of the key.
JSONSet(store, key, entry) ==
  [k \in DOMAIN store \cup {key} |->
     IF k = key THEN MarshalEntry(entry) ELSE store[k]]

\* Cosine distance of two indexed vectors as the store reports it, in
\* hundredths: 0 for equal directions.
CosineDistance(u, v) ==
  LET a == IF u[1] <= v[1] THEN u[1] ELSE v[1]
      b == IF u[1] <= v[1] THEN v[1] ELSE u[1]
  IN CASE a = b -> 0
       [] a = 1 /\ b = 2 -> 2
       [] a = 1 /\ b = 3 -> 5
       [] a = 2 /\ b = 3 -> 10
       [] OTHER -> 100

\* The keys the KNN 1 query may return: the nearest documents of the index.
Nearest(store, vec) ==
  { k \in DOMAIN store :
      \A j \in DOMAIN store :
        CosineDistance(store[k].embedding, vec)
          <= CosineDistance(store[j].embedding, vec) }

\* The text of a field value: a decimal number, or text that is no number.
NumberText(d) == [numeric |-> TRUE, value |-> d]
NotANumber == [numeric |-> FALSE, value |-> 0]

\* fmt.Sscanf(text, "%f", &score): score is assigned when the text parses and
\* left as it was when it does not (the error is not looked at).
Sscanf(text, score) == IF text.numeric THEN text.value ELSE score

\* The shapes of an FT.SEARCH reply: the score field holds the distance, is
\* absent, or holds text that is no number.
ReplyShapes == {"ok", "noscore", "badscore"}

\* The raw FT.SEARCH reply for a top-1 key: key, then the field list.
SearchReply(store, vec, key, shape) ==
  [key |-> key,
   fields |->
     CASE shape = "noscore" -> << "$", store[key] >>
       [] shape = "badscore" -> << "__vector_score", NotANumber, "$", store[key] >>
       [] OTHER -> << "__vector_score",
                      NumberText(CosineDistance(store[key].embedding, vec)),
                      "$", store[key] >>]

\* Mutation of ParseSearchFields: the distance is reported as the score, without
\* the conversion score = 1 - distance.
ParseSearchFields_RawDistance(fields) ==
  LET idx(name) == { i \in 1..Len(fields) - 1 : i % 2 = 1 /\ fields[i] = name }
      scoreAt == idx("__vector_score")
      docAt == idx("$")
  IN [Score |-> IF scoreAt = {} THEN 0
                ELSE Sscanf(fields[(CHOOSE i \in scoreAt :
                                      \A j \in scoreAt : j <= i) + 1], 0),
      Document |-> IF docAt = {} THEN Nil
                   ELSE Some(fields[(CHOOSE i \in docAt : \A j \in docAt : j <= i) + 1])]

\* RedisClient.parseSearchFields: score (1 - distance) and document.
ParseSearchFields(fields) ==
  LET idx(name) == { i \in 1..Len(fields) - 1 : i % 2 = 1 /\ fields[i] = name }
      scoreAt == idx("__vector_score")
      docAt == idx("$")
  IN [Score |-> IF scoreAt = {} THEN 0
                ELSE 100 - Sscanf(fields[(CHOOSE i \in scoreAt :
                                            \A j \in scoreAt : j <= i) + 1], 0),
      Document |-> IF docAt = {} THEN Nil
                   ELSE Some(fields[(CHOOSE i \in docAt : \A j \in docAt : j <= i) + 1])]

\* RedisClient.FTSearch + parseSearchResults for the reply naming `key`
\* (Nil: the reply with total count 0).
FTSearch(store, vec, key, shape) ==
  IF IsNil(key) THEN <<>>
  ELSE LET reply == SearchReply(store, vec, Deref(key), shape)
           parsed == ParseSearchFields(reply.fields)
       IN << [Key |-> reply.key, Score |-> parsed.Score,
              Document |-> parsed.Document] >>

\* ------------------------------------------------------------ cache service

\* The outcome of one store command: it answers, or the transport fails.
StoreFaults == {"ok", "transport"}

\* CacheServiceImpl.CheckExactMatch(ctx, queryHash)
CheckExactMatch(store, queryHash, fault) ==
  LET key == CacheKeyFromHash(queryHash)
      data == JSONGet(store, key)
  IN IF fault # "ok" THEN [entry |-> Nil, err |-> TRUE]
     ELSE IF ~Exists(store, key) THEN [entry |-> Nil, err |-> FALSE]
     ELSE IF IsNil(data) THEN [entry |-> Nil, err |-> FALSE]
     ELSE IF Len(Deref(data)) = 0 THEN [entry |-> Nil, err |-> FALSE]
     ELSE [entry |-> Some(UnmarshalEntry(Deref(data)[1])), err |-> FALSE]

\* The top-1 keys FT.SEARCH may name for the vector (Nil: no document indexed).
SearchKeys(store, vec) ==
  IF DOMAIN store = {} THEN {Nil}
  ELSE { Some(k) : k \in Nearest(store, vec) }

\* Mutation of SearchSimilar: a neighbour at the threshold is returned
\* (similarity < threshold is the miss, instead of similarity <= threshold).
SearchSimilar_AtThreshold(store, embedding, thr, fault, key) ==
  LET results == FTSearch(store, embedding, key, fault)
      bestMatch == results[1]
      similarity == bestMatch.Score
  IN IF Len(embedding) = 0 \/ fault \notin ReplyShapes
       THEN [entry |-> Nil, similarity |-> 0, err |-> TRUE]
     ELSE IF Len(results) = 0
       THEN [entry |-> Nil, similarity |-> 0, err |-> FALSE]
     ELSE IF similarity < thr \/ IsNil(bestMatch.Document)
       THEN [entry |-> Nil, similarity |-> similarity, err |-> FALSE]
     ELSE [entry |-> Some(UnmarshalEntry(Deref(bestMatch.Document))),
           similarity |-> similarity, err |-> FALSE]

\* CacheServiceImpl.SearchSimilar(ctx, embedding, threshold).  fault: what the
\* store does with FT.SEARCH, a failure or the shape of its reply.
SearchSimilar(store, embedding, thr, fault, key) ==
  LET results == FTSearch(store, embedding, key, fault)
      bestMatch == results[1]
      similarity == bestMatch.Score
  IN IF Len(embedding) = 0
       THEN [entry |-> Nil, similarity |-> 0, err |-> TRUE]
     ELSE IF fault \notin ReplyShapes
       THEN [entry |-> Nil, similarity |-> 0, err |-> TRUE]
     ELSE IF Len(results) = 0
       THEN [entry |-> Nil, similarity |-> 0, err |-> FALSE]
     ELSE IF similarity <= thr
       THEN [entry |-> Nil, similarity |-> similarity, err |-> FALSE]
     ELSE IF IsNil(bestMatch.Document)
       THEN [entry |-> Nil, similarity |-> similarity, err |-> FALSE]
     ELSE [entry |-> Some(UnmarshalEntry(Deref(bestMatch.Document))),
           similarity |-> similarity, err |-> FALSE]

\* validateCacheEntry: TRUE when the entry is rejected.
\* Mutation of validateCacheEntry: the llm_response check is left out.
validateCacheEntry_NoResponseCheck(entry) ==
  \/ IsNil(entry)
  \/ Deref(entry).query_hash = EmptyString
  \/ Deref(entry).user_query = EmptyString
  \/ Len(Deref(entry).embedding) = 0

validateCacheEntry(entry) ==
  \/ IsNil(entry)
  \/ Deref(entry).query_hash = EmptyString
  \/ Deref(entry).user_query = EmptyString
  \/ Len(Deref(entry).embedding) = 0
  \/ Len(Deref(entry).llm_response) = 0

\* Mutation of store: a write that the store fails removes the document
\* already held under the key.
store_DropOnFault(redisStore, entry, fault, t) ==
  IF validateCacheEntry(entry) THEN [err |-> TRUE, store |-> redisStore]
  ELSE LET e0 == Deref(entry)
           e1 == IF e0.id = EmptyString
                 THEN [e0 EXCEPT !.id = CacheKeyFromHash(e0.query_hash)]
                 ELSE e0
           e2 == IF e1.created_at = 0 THEN [e1 EXCEPT !.created_at = t] ELSE e1
       IN IF fault # "ok"
          THEN [err |-> TRUE,
                store |-> [k \in DOMAIN redisStore \ {e2.id} |-> redisStore[k]]]
          ELSE [err |-> FALSE, store |-> JSONSet(redisStore, e2.id, e2)]

\* CacheServiceImpl.store(ctx, entry) at clock reading t: the store after the
\* call, and whether the call failed.
store(redisStore, entry, fault, t) ==
  IF validateCacheEntry(entry) THEN [err |-> TRUE, store |-> redisStore]
  ELSE LET e0 == Deref(entry)
           e1 == IF e0.id = EmptyString
                 THEN [e0 EXCEPT !.id = CacheKeyFromHash(e0.query_hash)]
                 ELSE e0
           e2 == IF e1.created_at = 0 THEN [e1 EXCEPT !.created_at = t] ELSE e1
       IN IF fault # "ok" THEN [err |-> TRUE, store |-> redisStore]
          ELSE [err |-> FALSE, store |-> JSONSet(redisStore, e2.id, e2)]

\* ------------------------------------------------------------------- upstream

HeaderNames == {"Content-Type", "X-Cache-Status", "X-Request-ID", "Retry-After"}

\* http.Header: every name maps to its list of values.
EmptyHeader == [h \in HeaderNames |-> <<>>]

\* Header.Set
HeaderSet(header, name, value) == [header EXCEPT ![name] = <<value>>]

\* Header.Add
HeaderAdd(header, name, value) == [header EXCEPT ![name] = Append(@, value)]

JsonHeader == HeaderSet(EmptyHeader, "Content-Type", "application/json")

\* An upstream answer that itself carries cache and request-id headers.
TaggedHeader ==
  [JsonHeader EXCEPT !["X-Cache-Status"] = <<"HIT", "STALE">>,
                     !["X-Request-ID"] = <<"up-7">>]

UpstreamResponse(status, header, body, readErr) ==
  [kind |-> "response", StatusCode |-> status, Header |-> header,
   Body |-> body, readErr |-> readErr, cause |-> "none"]

\* Forward returned no response and an error wrapping the cause.
UpstreamError(cause) ==
  [kind |-> "error", StatusCode |-> 0, Header |-> EmptyHeader,
   Body |-> EmptyString, readErr |-> FALSE, cause |-> cause]

\* What Forward can return: an error (the connection refused, the client's
\* timeout elapsed, the context cancelled), or a response whose body may fail
\* to read.
UpstreamOutcomes ==
  { UpstreamError("refused"),
    UpstreamError("timeout"),
    UpstreamError("canceled"),
    UpstreamResponse(200, JsonHeader, <<"r1">>, TRUE),
    UpstreamResponse(200, JsonHeader, <<"r1">>, FALSE),
    UpstreamResponse(200, TaggedHeader, <<"r2">>, FALSE),
    UpstreamResponse(200, JsonHeader, <<"r3", InvalidUTF8>>, FALSE),
    UpstreamResponse(200, JsonHeader, EmptyString, FALSE),
    UpstreamResponse(201, JsonHeader, <<"r1">>, FALSE),
    UpstreamResponse(429, HeaderSet(TaggedHeader, "Retry-After", "1"),
                     <<"slow down">>, FALSE),
    UpstreamResponse(502, JsonHeader, <<"bad gateway">>, FALSE) }

\* Mutation of clientDo: the outbound request is created without the
\* caller's context, so that a cancellation never ends the exchange.
clientDo_WithoutContext(done, up) == up.cause # "canceled"

\* p.client.Do(upstreamReq) for a request created with the caller's context:
\* whether it can return `up` when the context is done or not.  Under a done
\* context it returns the context's error and nothing else.
clientDo(done, up) ==
  done <=> (up.kind = "error" /\ up.cause = "canceled")

\* -------------------------------------------------------- pipeline controller

\* handler.New: the threshold the controller passes to SearchSimilar.
New(cfg) ==
  IF ~IsNil(cfg) /\ Deref(cfg).SimilarityThreshold > 0
  THEN Deref(cfg).SimilarityThreshold
  ELSE DefaultThreshold

\* The threshold of the handler main constructs for this run.
threshold == New(Some([SimilarityThreshold |-> SimilarityThreshold]))

\* logger.GenerateRequestID for request r
RequestID(r) == "req-" \o ToString(r)

\* A response writer nothing has been written to.
NoResponse == [status |-> 0, header |-> EmptyHeader, body |-> EmptyString]

\* CacheHandler.writeError: the JSON encoding of the error struct.
ErrorBody(message, errType) ==
  << "{\"error\":{\"message\":\"", message, "\",\"type\":\"", errType, "\"}}\n" >>

\* Mutation of writeError: the message is written as plain text, without the
\* error envelope and its type.
writeError_PlainText(statusCode, message, errType) ==
  [status |-> statusCode,
   header |-> HeaderSet(EmptyHeader, "Content-Type", "text/plain"),
   body |-> <<message>>]

writeError(statusCode, message, errType) ==
  [status |-> statusCode,
   header |-> HeaderSet(EmptyHeader, "Content-Type", "application/json"),
   body |-> ErrorBody(message, errType)]

\* Mutation of serveCachedResponse: the cached query text is written as the
\* body, instead of the cached response.
serveCachedResponse_QueryText(entry, requestID) ==
  [status |-> StatusOK,
   header |-> HeaderSet(HeaderSet(HeaderSet(EmptyHeader,
                "Content-Type", "application/json"),
                "X-Cache-Status", "HIT"),
                "X-Request-ID", requestID),
   body |-> entry.user_query]

\* Mutation of serveCachedResponse: the cached body is written marked MISS.
serveCachedResponse_MarkedMiss(entry, requestID) ==
  [status |-> StatusOK,
   header |-> HeaderSet(HeaderSet(HeaderSet(EmptyHeader,
                "Content-Type", "application/json"),
                "X-Cache-Status", "MISS"),
                "X-Request-ID", requestID),
   body |-> entry.llm_response]

\* CacheHandler.serveCachedResponse: what it writes to the client.
serveCachedResponse(entry, requestID) ==
  [status |-> StatusOK,
   header |-> HeaderSet(HeaderSet(HeaderSet(EmptyHeader,
                "Content-Type", "application/json"),
                "X-Cache-Status", "HIT"),
                "X-Request-ID", requestID),
   body |-> entry.llm_response]

\* Mutation of CopyHeaders: only the content type of the upstream is copied.
CopyHeaders_ContentTypeOnly(dst, src) ==
  [h \in HeaderNames |-> IF h = "Content-Type" THEN dst[h] \o src[h] ELSE dst[h]]

\* forwardToUpstream, lines 222-227: every upstream header value is added.
CopyHeaders(dst, src) == [h \in HeaderNames |-> dst[h] \o src[h]]

\* Mutation of writeUpstreamResponse: X-Cache-Status is added to the copied
\* headers (Header.Add) instead of replacing them (Header.Set).
writeUpstreamResponse_AddStatus(up, requestID) ==
  [status |-> up.StatusCode,
   header |-> HeaderSet(HeaderAdd(CopyHeaders(EmptyHeader, up.Header),
                "X-Cache-Status", "MISS"),
                "X-Request-ID", requestID),
   body |-> up.Body]

\* forwardToUpstream, lines 222-231: the response for an upstream answer.
writeUpstreamResponse(up, requestID) ==
  [status |-> up.StatusCode,
   header |-> HeaderSet(HeaderSet(CopyHeaders(EmptyHeader, up.Header),
                "X-Cache-Status", "MISS"),
                "X-Request-ID", requestID),
   body |-> up.Body]

\* Mutation of shouldStore: every 2xx answer is stored.
shouldStore_Any2xx(embeddingVec, up) ==
  ~IsNil(embeddingVec) /\ up.StatusCode \in 200..299

\* Mutation of shouldStore: the answer is stored whatever its status.
shouldStore_AnyStatus(embeddingVec, up) ==
  ~IsNil(embeddingVec)

\* Mutation of shouldStore: the answer is stored without looking at the vector.
shouldStore_StatusOnly(embeddingVec, up) ==
  up.StatusCode = StatusOK

\* forwardToUpstream, line 236: whether the answer is handed to StoreAsync.
shouldStore(embeddingVec, up) ==
  ~IsNil(embeddingVec) /\ up.StatusCode = StatusOK

\* forwardToUpstream, lines 237-243: the entry handed to StoreAsync.
newEntry(queryHash, queryText, embeddingVec, respBody, t) ==
  CacheEntry(EmptyString, queryHash, queryText,
             IF IsNil(embeddingVec) THEN <<>> ELSE Deref(embeddingVec),
             respBody, t)

\* ---------------------------------------------------------------------- stats

NoStats ==
  [TotalRequests |-> 0, CacheHits |-> 0, CacheMisses |-> 0, Errors |-> 0,
   TotalLatencyMs |-> 0]

RecordHit(st, latencyMs) ==
  [st EXCEPT !.TotalRequests = @ + 1, !.CacheHits = @ + 1,
             !.TotalLatencyMs = @ + latencyMs]

RecordMiss(st, latencyMs) ==
  [st EXCEPT !.TotalRequests = @ + 1, !.CacheMisses = @ + 1,
             !.TotalLatencyMs = @ + latencyMs]

\* RecordError takes no latency and adds none.
RecordError(st) ==
  [st EXCEPT !.TotalRequests = @ + 1, !.Errors = @ + 1]

\* ------------------------------------------------------------------- contexts

\* What a store command gives under a context: a context that is done fails
\* the command, otherwise the store decides.
requestFault(done, fault) == IF done THEN "cancelled" ELSE fault

\* Mutation of writeBehindCtx: the write-behind context is derived from the
\* request's context.
writeBehindCtx_Derived(requestDone) == requestDone

\* StoreAsync, line 219: context.WithTimeout(context.Background(), 10 s).
\* Whether the context of the write is done because the request's context is.
writeBehindCtx(requestDone) == FALSE

\* ---------------------------------------------------------------------- state

VARIABLES
  pc,            \* pc[r]: where request r's task stands
  bodyBytes,     \* bodyBytes[r]: the buffered request body
  queryText,     \* queryText[r]
  queryHash,     \* queryHash[r]
  exactMatch,    \* exactMatch[r]: what CheckExactMatch returned
  embeddingVec,  \* embeddingVec[r]: what Generate returned (Nil on error)
  similar,       \* similar[r]: what SearchSimilar returned
  upstream,      \* upstream[r]: what Forward returned
  resp,          \* resp[r]: the response written to the client
  calls,         \* calls[r]: the collaborator calls made for r, in order
  tasks,         \* tasks[r]: the write-behind goroutine StoreAsync started
  redis,         \* the store: key -> JSON document
  globalStats,   \* the process-wide counters
  now,           \* the wall clock
  lastWriter,    \* lastWriter[key]: the request whose write-behind wrote key last
  servedFrom,    \* servedFrom[r]: the writer of the entry r's exact lookup read
  settled,       \* settled[r]: the requests whose write-behind had stored
                 \* their entry when r arrived
  ctxDone,       \* ctxDone[r]: r.Context() is done (the client has gone, or
                 \* ServeHTTP has returned)
  startTime,     \* startTime[r]: the clock when ServeHTTP began
  panicked,      \* a goroutine has panicked: the process is gone
  mw,            \* the body-buffer pre-stage and the request it hands on
  fn,            \* a function of the gateway applied on its own: its
                 \* argument and what its invocations returned
  idx,           \* the store's vector indices and the processes that
                 \* construct a cache service against it
  lk,             \* an exact lookup in progress, command by command, while
                 \* another client of the store writes and deletes keys
  ctr,          \* the Record and ResetStats calls in progress on the counters
  life         \* where main stands: serving, draining the HTTP server, closing the store connection, exited

\* The state of the handler, its collaborators and the store.
handlerVars == << pc, bodyBytes, queryText, queryHash, exactMatch, embeddingVec,
                  similar, upstream, resp, calls, tasks, redis, globalStats,
                  now, lastWriter, servedFrom, settled, ctxDone, startTime,
                  panicked >>

\* The state of the components checked on their own.
compVars == << mw, fn, idx >>

\* The state of the process around the handler.
procVars == << lk, ctr, life >>

vars == << handlerVars, compVars, procVars >>

\* The body-buffer pre-stage before a request reaches it.
NoBuffering ==
  [phase |-> "idle", method |-> "", sent |-> Nil, body |-> Nil,
   ctxBody |-> Nil, nextCalls |-> 0, resp |-> NoResponse, log |-> <<>>]

\* How many processes construct a cache service against the same store.
MaxProcs == 2

Procs == 1..MaxProcs

\* No construction begun.  probe, create: the replies to FT.INFO and
\* FT.CREATE (empty: not sent); faulted: a command of the construction met a
\* store fault; svc, err: what NewCacheService returned.
NoConstruction ==
  [pc |-> "idle", round |-> 0, probe |-> <<>>, create |-> <<>>,
   faulted |-> FALSE, svc |-> Nil, err |-> Nil]

\* A store without index and no process constructing a service.
NoBootstrap == [indices |-> <<>>, procs |-> [p \in Procs |-> NoConstruction]]

\* No function applied on its own.
NoApplication == [name |-> "none", arg |-> Nil, outs |-> <<>>]

\* No exact lookup begun.  present: the key was in the store when the last
\* command of the lookup ran; seen: EXISTS answered 1; fault: a command met a
\* store fault; undecodable: the document read does not decode.
NoLookup ==
  [pc |-> "idle", round |-> 0, key |-> EmptyString, seen |-> FALSE,
   present |-> FALSE, fault |-> FALSE, undecodable |-> FALSE,
   entry |-> Nil, err |-> FALSE]

\* How many goroutines call the counters' functions at once.
MaxGoroutines == 2

Goroutines == 1..MaxGoroutines

\* No call on the counters in progress.  calls[g]: the function goroutine g
\* is in, the atomic operations of it already done, and its latency
\* argument; started: the calls begun so far.
NoCounterCall == [op |-> "none", at |-> 0, latencyMs |-> 0]
NoCounterCalls == [calls |-> [g \in Goroutines |-> NoCounterCall], started |-> 0]

\* The process around the handler, at rest.
ProcIdle == lk = NoLookup /\ ctr = NoCounterCalls /\ life = "serving"

\* The components checked on their own, at rest.
CompIdle ==
  mw = NoBuffering /\ fn = NoApplication /\ idx = NoBootstrap /\ ProcIdle

\* A call not made yet.  neighbour: the document the store named as top-1.
NoCall == [entry |-> Nil, similarity |-> 0, err |-> FALSE, neighbour |-> Nil]

\* No goroutine started.  fault: what the store answered to the task's write.
NoTask == [state |-> "none", entry |-> Nil, fault |-> "none"]

\* The handler before any request, on an empty store.
HandlerIdle ==
  /\ pc = [r \in Requests |-> "idle"]
  /\ bodyBytes = [r \in Requests |-> [kind |-> "nil", messages |-> <<>>]]
  /\ queryText = [r \in Requests |-> EmptyString]
  /\ queryHash = [r \in Requests |-> EmptyString]
  /\ exactMatch = [r \in Requests |-> NoCall]
  /\ embeddingVec = [r \in Requests |-> Nil]
  /\ similar = [r \in Requests |-> NoCall]
  /\ upstream = [r \in Requests |-> Nil]
  /\ resp = [r \in Requests |-> NoResponse]
  /\ calls = [r \in Requests |-> <<>>]
  /\ tasks = [r \in Requests |-> NoTask]
  /\ redis = EmptyStore
  /\ globalStats = NoStats
  /\ now = 1
  /\ lastWriter = EmptyStore
  /\ servedFrom = [r \in Requests |-> 0]
  /\ settled = [r \in Requests |-> {}]
  /\ ctxDone = [r \in Requests |-> FALSE]
  /\ startTime = [r \in Requests |-> 0]
  /\ panicked = FALSE

Init == HandlerIdle /\ CompIdle

\* Milliseconds since ServeHTTP began for request r.
elapsedMs(r) == now - startTime[r]

\* -------------------------------------------------------------------- actions

\* Mutation of Arrive: the request is rejected only when its envelope holds
\* no user message; an empty query text goes on to the exact lookup.
Arrive_RejectNoUserOnly(r, b) ==
  LET parsed == UnmarshalRequest(b)
      text == ExtractQueryText(parsed.chatReq)
      reject(message) ==
        /\ resp' = [resp EXCEPT ![r] =
                      writeError(StatusBadRequest, message, "invalid_request_error")]
        /\ globalStats' = RecordError(globalStats)
        /\ pc' = [pc EXCEPT ![r] = "done"]
        /\ ctxDone' = [ctxDone EXCEPT ![r] = TRUE]
        /\ UNCHANGED << queryText, queryHash >>
  IN /\ pc[r] = "idle"
     /\ tasks[r].state = "none"
     /\ ~panicked
     /\ UNCHANGED << compVars, procVars >>
     /\ \A q \in Requests : q < r => pc[q] # "idle"
     /\ bodyBytes' = [bodyBytes EXCEPT ![r] = b]
     /\ now' = now + 1
     /\ startTime' = [startTime EXCEPT ![r] = now + 1]
     /\ settled' = [settled EXCEPT ![r] =
                      { q \in Requests : tasks[q].state = "stored" }]
     /\ IF b.kind = "nil" THEN reject("Request body not available")
        ELSE IF parsed.err THEN reject("Invalid request format")
        ELSE IF UserParts(b.messages) = <<>> THEN reject("No user messages found in request")
        ELSE /\ queryText' = [queryText EXCEPT ![r] = text]
             /\ queryHash' = [queryHash EXCEPT ![r] = ComputeQueryHash(text)]
             /\ pc' = [pc EXCEPT ![r] = "exact"]
             /\ UNCHANGED << resp, globalStats, ctxDone >>
     /\ UNCHANGED << exactMatch, embeddingVec, similar, upstream, calls, tasks,
                     redis, lastWriter, servedFrom, panicked >>

\* ServeHTTP, lines 58-93: the request arrives with its buffered body; the
\* envelope is decoded and the query extracted and hashed, or 400 is written.
Arrive(r, b) ==
  LET parsed == UnmarshalRequest(b)
      text == ExtractQueryText(parsed.chatReq)
      reject(message) ==
        /\ resp' = [resp EXCEPT ![r] =
                      writeError(StatusBadRequest, message, "invalid_request_error")]
        /\ globalStats' = RecordError(globalStats)
        /\ pc' = [pc EXCEPT ![r] = "done"]
        /\ ctxDone' = [ctxDone EXCEPT ![r] = TRUE]
        /\ UNCHANGED << queryText, queryHash >>
  IN /\ pc[r] = "idle"
     /\ tasks[r].state = "none"
     /\ ~panicked
     /\ UNCHANGED << compVars, procVars >>
     /\ \A q \in Requests : q < r => pc[q] # "idle"
     /\ bodyBytes' = [bodyBytes EXCEPT ![r] = b]
     /\ now' = now + 1
     /\ startTime' = [startTime EXCEPT ![r] = now + 1]
     /\ settled' = [settled EXCEPT ![r] =
                      { q \in Requests : tasks[q].state = "stored" }]
     /\ IF b.kind = "nil" THEN reject("Request body not available")
        ELSE IF parsed.err THEN reject("Invalid request format")
        ELSE IF text = EmptyString THEN reject("No user messages found in request")
        ELSE /\ queryText' = [queryText EXCEPT ![r] = text]
             /\ queryHash' = [queryHash EXCEPT ![r] = ComputeQueryHash(text)]
             /\ pc' = [pc EXCEPT ![r] = "exact"]
             /\ UNCHANGED << resp, globalStats, ctxDone >>
     /\ UNCHANGED << exactMatch, embeddingVec, similar, upstream, calls, tasks,
                     redis, lastWriter, servedFrom, panicked >>

\* The client goes away while its request is being served: r.Context() is done.
Disconnect(r) ==
  /\ pc[r] \in {"exact", "embed", "search", "forward"}
  /\ ~panicked
  /\ UNCHANGED << compVars, procVars >>
  /\ ~ctxDone[r]
  /\ ctxDone' = [ctxDone EXCEPT ![r] = TRUE]
  /\ UNCHANGED << pc, bodyBytes, queryText, queryHash, exactMatch, embeddingVec,
                  similar, upstream, resp, calls, tasks, redis, globalStats,
                  now, lastWriter, servedFrom, settled, startTime, panicked >>

\* Mutation of ExactLookup: after serving an exact hit the handler does not
\* return and goes on to the embedding.
ExactLookup_NoReturn(r, fault) ==
  LET res == CheckExactMatch(redis, queryHash[r], requestFault(ctxDone[r], fault))
      key == CacheKeyFromHash(queryHash[r])
  IN /\ pc[r] = "exact"
     /\ ~panicked
     /\ UNCHANGED << compVars, procVars >>
     /\ calls' = [calls EXCEPT ![r] = Append(@, "CheckExactMatch")]
     /\ exactMatch' = [exactMatch EXCEPT ![r] =
                         [entry |-> res.entry, similarity |-> 0,
                          err |-> res.err, neighbour |-> Nil]]
     /\ servedFrom' = [servedFrom EXCEPT ![r] =
                         IF ~res.err /\ key \in DOMAIN lastWriter
                         THEN lastWriter[key] ELSE 0]
     /\ IF ~res.err /\ ~IsNil(res.entry)
        THEN /\ resp' = [resp EXCEPT ![r] =
                           serveCachedResponse(Deref(res.entry), RequestID(r))]
             /\ globalStats' = RecordHit(globalStats, elapsedMs(r))
        ELSE UNCHANGED << resp, globalStats >>
     /\ pc' = [pc EXCEPT ![r] = "embed"]
     /\ UNCHANGED << bodyBytes, queryText, queryHash, embeddingVec, similar,
                     upstream, tasks, redis, now, lastWriter, settled,
                     startTime, panicked, ctxDone >>

\* ServeHTTP, lines 95-104: the exact lookup; a hit is served from the cache.
ExactLookup(r, fault) ==
  LET res == CheckExactMatch(redis, queryHash[r], requestFault(ctxDone[r], fault))
      key == CacheKeyFromHash(queryHash[r])
  IN /\ pc[r] = "exact"
     /\ ~panicked
     /\ UNCHANGED << compVars, procVars >>
     /\ calls' = [calls EXCEPT ![r] = Append(@, "CheckExactMatch")]
     /\ exactMatch' = [exactMatch EXCEPT ![r] =
                         [entry |-> res.entry, similarity |-> 0,
                          err |-> res.err, neighbour |-> Nil]]
     /\ servedFrom' = [servedFrom EXCEPT ![r] =
                         IF ~res.err /\ key \in DOMAIN lastWriter
                         THEN lastWriter[key] ELSE 0]
     /\ IF ~res.err /\ ~IsNil(res.entry)
        THEN /\ resp' = [resp EXCEPT ![r] =
                           serveCachedResponse(Deref(res.entry), RequestID(r))]
             /\ globalStats' = RecordHit(globalStats, elapsedMs(r))
             /\ pc' = [pc EXCEPT ![r] = "done"]
             /\ ctxDone' = [ctxDone EXCEPT ![r] = TRUE]
        ELSE /\ pc' = [pc EXCEPT ![r] = "embed"]
             /\ UNCHANGED << resp, globalStats, ctxDone >>
     /\ UNCHANGED << bodyBytes, queryText, queryHash, embeddingVec, similar,
                     upstream, tasks, redis, now, lastWriter, settled,
                     startTime, panicked >>

\* Mutation of Embed: an embedding error ends the request with an error
\* response (fail closed) instead of sending it to the upstream.
Embed_FailClosed(r, reply) ==
  LET res == Generate(queryText[r], reply)
  IN /\ pc[r] = "embed"
     /\ ~panicked
     /\ UNCHANGED << compVars, procVars >>
     /\ ctxDone[r] => reply.kind = "transport"
     /\ calls' = [calls EXCEPT ![r] = Append(@, "Generate")]
     /\ embeddingVec' = [embeddingVec EXCEPT ![r] = res.vec]
     /\ pc' = [pc EXCEPT ![r] = IF res.err THEN "done" ELSE "search"]
     /\ resp' = [resp EXCEPT ![r] =
                   IF res.err
                   THEN writeError(500, "Embedding service unavailable", "api_error")
                   ELSE @]
     /\ ctxDone' = [ctxDone EXCEPT ![r] = @ \/ res.err]
     /\ UNCHANGED << bodyBytes, queryText, queryHash, exactMatch, similar,
                     upstream, tasks, redis, globalStats, now,
                     lastWriter, servedFrom, settled, startTime, panicked >>

\* ServeHTTP, lines 108-120: the embedding call; on an error the request goes
\* to the upstream without a vector.  Under a context that is done the HTTP
\* call to the embedding endpoint fails.
Embed(r, reply) ==
  LET res == Generate(queryText[r], reply)
  IN /\ pc[r] = "embed"
     /\ ~panicked
     /\ UNCHANGED << compVars, procVars >>
     /\ ctxDone[r] => reply.kind = "transport"
     /\ calls' = [calls EXCEPT ![r] = Append(@, "Generate")]
     /\ embeddingVec' = [embeddingVec EXCEPT ![r] = res.vec]
     /\ pc' = [pc EXCEPT ![r] = IF res.err THEN "forward" ELSE "search"]
     /\ UNCHANGED << bodyBytes, queryText, queryHash, exactMatch, similar,
                     upstream, resp, tasks, redis, globalStats, now,
                     lastWriter, servedFrom, settled, ctxDone, startTime,
                     panicked >>

\* Mutation of Search: after a failed search the request is forwarded without
\* its vector (nil is passed to forwardToUpstream).
Search_DropsVector(r, fault, key) ==
  LET outcome == requestFault(ctxDone[r], fault)
      res == SearchSimilar(redis, Deref(embeddingVec[r]), threshold, outcome, key)
  IN /\ pc[r] = "search"
     /\ ~panicked
     /\ UNCHANGED << compVars, procVars >>
     /\ calls' = [calls EXCEPT ![r] = Append(@, "SearchSimilar")]
     /\ similar' = [similar EXCEPT ![r] =
                      [entry |-> res.entry, similarity |-> res.similarity,
                       err |-> res.err,
                       neighbour |-> IF outcome = "ok" /\ ~IsNil(key)
                                     THEN Some(redis[Deref(key)]) ELSE Nil]]
     /\ embeddingVec' = [embeddingVec EXCEPT ![r] = IF res.err THEN Nil ELSE @]
     /\ IF ~res.err /\ ~IsNil(res.entry)
        THEN /\ resp' = [resp EXCEPT ![r] =
                           serveCachedResponse(Deref(res.entry), RequestID(r))]
             /\ globalStats' = RecordHit(globalStats, elapsedMs(r))
             /\ pc' = [pc EXCEPT ![r] = "done"]
             /\ ctxDone' = [ctxDone EXCEPT ![r] = TRUE]
        ELSE /\ pc' = [pc EXCEPT ![r] = "forward"]
             /\ UNCHANGED << resp, globalStats, ctxDone >>
     /\ UNCHANGED << bodyBytes, queryText, queryHash, exactMatch, upstream,
                     tasks, redis, now, lastWriter, servedFrom, settled,
                     startTime, panicked >>

\* ServeHTTP, lines 122-144: the vector search; a hit is served from the
\* cache, a miss or an error goes to the upstream with the vector.
Search(r, fault, key) ==
  LET outcome == requestFault(ctxDone[r], fault)
      res == SearchSimilar(redis, Deref(embeddingVec[r]), threshold, outcome, key)
  IN /\ pc[r] = "search"
     /\ ~panicked
     /\ UNCHANGED << compVars, procVars >>
     /\ calls' = [calls EXCEPT ![r] = Append(@, "SearchSimilar")]
     /\ similar' = [similar EXCEPT ![r] =
                      [entry |-> res.entry, similarity |-> res.similarity,
                       err |-> res.err,
                       neighbour |-> IF outcome = "ok" /\ ~IsNil(key)
                                     THEN Some(redis[Deref(key)]) ELSE Nil]]
     /\ IF ~res.err /\ ~IsNil(res.entry)
        THEN /\ resp' = [resp EXCEPT ![r] =
                           serveCachedResponse(Deref(res.entry), RequestID(r))]
             /\ globalStats' = RecordHit(globalStats, elapsedMs(r))
             /\ pc' = [pc EXCEPT ![r] = "done"]
             /\ ctxDone' = [ctxDone EXCEPT ![r] = TRUE]
        ELSE /\ pc' = [pc EXCEPT ![r] = "forward"]
             /\ UNCHANGED << resp, globalStats, ctxDone >>
     /\ UNCHANGED << bodyBytes, queryText, queryHash, exactMatch, embeddingVec,
                     upstream, tasks, redis, now, lastWriter, servedFrom,
                     settled, startTime, panicked >>

\* Mutation of Forward: the handler performs the store itself and waits for it
\* before it returns, instead of handing the entry to a goroutine.
Forward_Synchronous(r, up) ==
  LET stored == up.kind = "response" /\ ~up.readErr
                /\ shouldStore(embeddingVec[r], up)
      entry == Some(newEntry(queryHash[r], queryText[r], embeddingVec[r],
                             up.Body, now))
      res == store(redis, entry, "ok", now)
  IN /\ pc[r] = "forward"
     /\ ~panicked
     /\ UNCHANGED << compVars, procVars >>
     /\ clientDo(ctxDone[r], up)
     /\ calls' = [calls EXCEPT ![r] =
                    IF stored THEN @ \o <<"Forward", "StoreAsync">>
                    ELSE Append(@, "Forward")]
     /\ upstream' = [upstream EXCEPT ![r] = Some(up)]
     /\ pc' = [pc EXCEPT ![r] = "done"]
     /\ ctxDone' = [ctxDone EXCEPT ![r] = TRUE]
     /\ resp' = [resp EXCEPT ![r] =
                   IF up.kind = "error" \/ up.readErr
                   THEN writeError(StatusBadGateway, "Upstream request failed",
                                   "upstream_error")
                   ELSE writeUpstreamResponse(up, RequestID(r))]
     /\ tasks' = [tasks EXCEPT ![r] =
                    IF stored
                    THEN [state |-> IF res.err THEN "failed" ELSE "stored",
                          entry |-> entry, fault |-> "ok"]
                    ELSE @]
     /\ redis' = IF stored THEN res.store ELSE redis
     /\ globalStats' = IF up.kind = "error" \/ up.readErr THEN globalStats
                       ELSE RecordMiss(globalStats, elapsedMs(r))
     /\ UNCHANGED << bodyBytes, queryText, queryHash, exactMatch, embeddingVec,
                     similar, now, lastWriter, servedFrom, settled, startTime,
                     panicked >>

\* forwardToUpstream: the upstream call, the client response and, for a 200
\* answer to a request that has a vector, the StoreAsync call, which starts
\* the goroutine and returns.  Under a context that is done Forward fails.
\* The two 502 paths return without recording anything in the stats.
Forward(r, up) ==
  /\ pc[r] = "forward"
  /\ ~panicked
  /\ UNCHANGED << compVars, procVars >>
  /\ clientDo(ctxDone[r], up)
  /\ calls' = [calls EXCEPT ![r] =
                 IF up.kind = "response" /\ ~up.readErr
                    /\ shouldStore(embeddingVec[r], up)
                 THEN @ \o <<"Forward", "StoreAsync">>
                 ELSE Append(@, "Forward")]
  /\ upstream' = [upstream EXCEPT ![r] = Some(up)]
  /\ pc' = [pc EXCEPT ![r] = "done"]
  /\ ctxDone' = [ctxDone EXCEPT ![r] = TRUE]
  /\ IF up.kind = "error"
     THEN /\ resp' = [resp EXCEPT ![r] =
                        writeError(StatusBadGateway, "Upstream request failed",
                                   "upstream_error")]
          /\ UNCHANGED << tasks, globalStats >>
     ELSE IF up.readErr
     THEN /\ resp' = [resp EXCEPT ![r] =
                        writeError(StatusBadGateway,
                                   "Failed to read upstream response",
                                   "upstream_error")]
          /\ UNCHANGED << tasks, globalStats >>
     ELSE /\ resp' = [resp EXCEPT ![r] = writeUpstreamResponse(up, RequestID(r))]
          /\ tasks' = [tasks EXCEPT ![r] =
                         IF shouldStore(embeddingVec[r], up)
                         THEN [state |-> "pending",
                               entry |-> Some(newEntry(queryHash[r], queryText[r],
                                                       embeddingVec[r], up.Body, now)),
                               fault |-> "none"]
                         ELSE @]
          /\ globalStats' = RecordMiss(globalStats, elapsedMs(r))
  /\ UNCHANGED << bodyBytes, queryText, queryHash, exactMatch, embeddingVec,
                  similar, redis, now, lastWriter, servedFrom, settled,
                  startTime, panicked >>

\* StoreAsync's goroutine: store(ctx, entry) under its own 10 s context; the
\* outcome is logged.  The error log reads entry.ID and entry.QueryHash
\* (cache.go:225-226): for a nil entry that is a nil dereference, a panic no one
\* recovers, which ends the process and with it every other goroutine.
WriteBehind(r, fault) ==
  LET entry == tasks[r].entry
      outcome == requestFault(writeBehindCtx(ctxDone[r]), fault)
      res == store(redis, entry, outcome, now)
      key == IF Deref(entry).id = EmptyString
             THEN CacheKeyFromHash(Deref(entry).query_hash)
             ELSE Deref(entry).id
  IN /\ tasks[r].state = "pending"
     /\ ~panicked
     /\ UNCHANGED << compVars, procVars >>
     /\ redis' = res.store
     /\ IF res.err /\ IsNil(entry)
        THEN /\ panicked' = TRUE
             /\ tasks' = [q \in Requests |->
                            IF q = r
                            THEN [tasks[q] EXCEPT !.state = "failed", !.fault = fault]
                            ELSE IF tasks[q].state = "pending"
                            THEN [tasks[q] EXCEPT !.state = "killed"]
                            ELSE tasks[q]]
        ELSE /\ panicked' = panicked
             /\ tasks' = [tasks EXCEPT
                            ![r].state = IF res.err THEN "failed" ELSE "stored",
                            ![r].fault = fault]
     /\ lastWriter' = IF res.err THEN lastWriter
                      ELSE [k \in DOMAIN lastWriter \cup {key} |->
                              IF k = key THEN r ELSE lastWriter[k]]
     /\ UNCHANGED << pc, bodyBytes, queryText, queryHash, exactMatch,
                     embeddingVec, similar, upstream, resp, calls, globalStats,
                     now, servedFrom, settled, ctxDone, startTime >>

\* A process that has panicked takes no further step.
Next ==
  \/ \E r \in Requests, b \in RequestBodies : Arrive(r, b)
  \/ \E r \in Requests : Disconnect(r)
  \/ \E r \in Requests, fault \in StoreFaults : ExactLookup(r, fault)
  \/ \E r \in Requests, reply \in EmbeddingReplies : Embed(r, reply)
  \/ \E r \in Requests, fault \in StoreFaults :
       /\ pc[r] = "search"
       /\ \E key \in SearchKeys(redis, Deref(embeddingVec[r])) :
            Search(r, fault, key)
  \/ \E r \in Requests, up \in UpstreamOutcomes : Forward(r, up)
  \/ \E r \in Requests, fault \in StoreFaults : WriteBehind(r, fault)

Spec == Init /\ [][Next]_vars

\* ------------------------------------------------- the cache service alone

\* An entry with every required field, for the query text.
\* The store as an earlier run of the gateway left it: the entry the
\* write-behind of a miss for QueryA answered <<"r1">> persisted at clock 1.
WarmStore ==
  store(EmptyStore,
        Some(newEntry(ComputeQueryHash(QueryA), QueryA,
                      Some(VectorOf(QueryA, Dimensions)), <<"r1">>, 1)),
        "ok", 1).store

\* The gateway started against the store an earlier run filled.
InitWarm ==
  /\ pc = [r \in Requests |-> "idle"]
  /\ bodyBytes = [r \in Requests |-> [kind |-> "nil", messages |-> <<>>]]
  /\ queryText = [r \in Requests |-> EmptyString]
  /\ queryHash = [r \in Requests |-> EmptyString]
  /\ exactMatch = [r \in Requests |-> NoCall]
  /\ embeddingVec = [r \in Requests |-> Nil]
  /\ similar = [r \in Requests |-> NoCall]
  /\ upstream = [r \in Requests |-> Nil]
  /\ resp = [r \in Requests |-> NoResponse]
  /\ calls = [r \in Requests |-> <<>>]
  /\ tasks = [r \in Requests |-> NoTask]
  /\ redis = WarmStore
  /\ globalStats = NoStats
  /\ now = 1
  /\ lastWriter = [key \in DOMAIN WarmStore |-> 0]
  /\ servedFrom = [r \in Requests |-> 0]
  /\ settled = [r \in Requests |-> {}]
  /\ ctxDone = [r \in Requests |-> FALSE]
  /\ startTime = [r \in Requests |-> 0]
  /\ panicked = FALSE
  /\ CompIdle

SpecWarm == InitWarm /\ [][Next]_vars

ValidEntry(id, text, llmResponse, createdAt) ==
  CacheEntry(id, ComputeQueryHash(text), text, VectorOf(text, Dimensions),
             llmResponse, createdAt)

\* The entries a caller of the CacheService interface can pass to StoreAsync:
\* nil, complete entries with and without id and timestamp, and entries that
\* lack one required field.
EntryInputs ==
  { Nil,
    Some(ValidEntry(EmptyString, QueryA, <<"r1">>, 0)),
    Some(ValidEntry(<<"custom">>, QueryA, <<"r2">>, 7)),
    Some(ValidEntry(EmptyString, QueryB, <<"r3", InvalidUTF8>>, 7)),
    Some([ValidEntry(EmptyString, QueryA, <<"r1">>, 0) EXCEPT !.query_hash = EmptyString]),
    Some([ValidEntry(EmptyString, QueryA, <<"r1">>, 0) EXCEPT !.user_query = EmptyString]),
    Some([ValidEntry(EmptyString, QueryA, <<"r1">>, 0) EXCEPT !.embedding = <<>>]),
    Some([ValidEntry(EmptyString, QueryA, <<"r1">>, 0) EXCEPT !.llm_response = EmptyString]) }

\* CacheServiceImpl.StoreAsync(entry), called directly: the goroutine is
\* started and the call returns.
CallStoreAsync(r, entry) ==
  /\ pc[r] = "idle"
  /\ ~panicked
  /\ UNCHANGED << compVars, procVars >>
  /\ tasks[r].state = "none"
  /\ tasks' = [tasks EXCEPT ![r] =
                 [state |-> "pending", entry |-> entry, fault |-> "none"]]
  /\ calls' = [calls EXCEPT ![r] = Append(@, "StoreAsync")]
  /\ UNCHANGED << pc, bodyBytes, queryText, queryHash, exactMatch, embeddingVec,
                  similar, upstream, resp, redis, globalStats, now, lastWriter,
                  servedFrom, settled, ctxDone, startTime, panicked >>

NextCache ==
  \/ \E r \in Requests, entry \in EntryInputs : CallStoreAsync(r, entry)
  \/ \E r \in Requests, fault \in StoreFaults : WriteBehind(r, fault)

\* The cache service driven through its interface, without the handler.
SpecCache == Init /\ [][NextCache]_vars

\* ------------------------------------------------ the body-buffer pre-stage

\* What a client puts on the wire as the body: present is FALSE when the
\* request has no Body at all, readErr when reading it fails.
WireBody(present, bytes, readErr) ==
  [present |-> present, bytes |-> bytes, readErr |-> readErr]

WireBodies ==
  { WireBody(FALSE, <<>>, FALSE),
    WireBody(TRUE, <<>>, FALSE),
    WireBody(TRUE, <<"1">>, FALSE),
    WireBody(TRUE, <<"[", "]">>, FALSE),
    WireBody(TRUE, <<"[", "1", "]">>, FALSE),
    WireBody(TRUE, <<"[">>, FALSE),
    WireBody(TRUE, <<"1", "]">>, FALSE),
    WireBody(TRUE, <<"[", "1">>, TRUE) }

Methods == {"POST", "GET"}

\* json.Valid over the tokens of the bodies of the model: one value, a value
\* being the scalar 1, the empty array, an array of one value, or an object
\* written { ... }.
RECURSIVE JSONValid(_)
JSONValid(bytes) ==
  \/ bytes = <<"1">>
  \/ /\ Len(bytes) >= 2
     /\ bytes[1] = "{" /\ bytes[Len(bytes)] = "}"
  \/ /\ Len(bytes) >= 2
     /\ bytes[1] = "[" /\ bytes[Len(bytes)] = "]"
     /\ \/ Len(bytes) = 2
        \/ JSONValid(SubSeq(bytes, 2, Len(bytes) - 1))

\* bytes.NewReader(b) behind io.NopCloser: the bytes and the read position.
NewReader(bytes, readErr) ==
  Some([bytes |-> bytes, pos |-> 0, readErr |-> readErr])

\* io.ReadAll on a reader: what is left from the position on.
ReadAll(reader) ==
  IF reader.readErr THEN [data |-> <<>>, err |-> TRUE]
  ELSE [data |-> SubSeq(reader.bytes, reader.pos + 1, Len(reader.bytes)),
        err |-> FALSE]

\* middleware.writeErrorResponse
writeErrorResponse(statusCode, message, errType) ==
  [status |-> statusCode,
   header |-> HeaderSet(EmptyHeader, "Content-Type", "application/json"),
   body |-> ErrorBody(message, errType)]

\* Mutation of BufferBody: the body is left as io.ReadAll left it, read to
\* the end, instead of being replaced by a fresh reader.
BufferBody_NoRestore(method, wire) ==
  IF method # "POST" \/ ~wire.present
  THEN [phase |-> "next",
        body |-> IF wire.present THEN NewReader(wire.bytes, wire.readErr) ELSE Nil,
        ctxBody |-> Nil, nextCalls |-> 1, resp |-> NoResponse]
  ELSE IF wire.readErr
  THEN [phase |-> "rejected", body |-> Nil, ctxBody |-> Nil, nextCalls |-> 0,
        resp |-> writeErrorResponse(StatusBadRequest,
                   "Failed to read request body", "invalid_request_error")]
  ELSE IF Len(wire.bytes) > 0 /\ ~JSONValid(wire.bytes)
  THEN [phase |-> "rejected", body |-> Nil, ctxBody |-> Nil, nextCalls |-> 0,
        resp |-> writeErrorResponse(StatusBadRequest,
                   "Request body is not valid JSON", "invalid_request_error")]
  ELSE [phase |-> "next",
        body |-> Some([bytes |-> wire.bytes, pos |-> Len(wire.bytes),
                       readErr |-> FALSE]),
        ctxBody |-> Some(wire.bytes), nextCalls |-> 1, resp |-> NoResponse]

\* Mutation of BufferBody: the body is buffered whatever the method.
BufferBody_AnyMethod(method, wire) ==
  IF ~wire.present
  THEN [phase |-> "next", body |-> Nil, ctxBody |-> Nil, nextCalls |-> 1,
        resp |-> NoResponse]
  ELSE IF wire.readErr
  THEN [phase |-> "rejected", body |-> Nil, ctxBody |-> Nil, nextCalls |-> 0,
        resp |-> writeErrorResponse(StatusBadRequest,
                   "Failed to read request body", "invalid_request_error")]
  ELSE IF Len(wire.bytes) > 0 /\ ~JSONValid(wire.bytes)
  THEN [phase |-> "rejected", body |-> Nil, ctxBody |-> Nil, nextCalls |-> 0,
        resp |-> writeErrorResponse(StatusBadRequest,
                   "Request body is not valid JSON", "invalid_request_error")]
  ELSE [phase |-> "next", body |-> NewReader(wire.bytes, FALSE),
        ctxBody |-> Some(wire.bytes), nextCalls |-> 1, resp |-> NoResponse]

\* BodyBufferMiddleware's handler function: whether next is called, with which
\* Body and context value, and what is written otherwise.
BufferBody(method, wire) ==
  IF method # "POST" \/ ~wire.present
  THEN [phase |-> "next",
        body |-> IF wire.present THEN NewReader(wire.bytes, wire.readErr) ELSE Nil,
        ctxBody |-> Nil, nextCalls |-> 1, resp |-> NoResponse]
  ELSE IF wire.readErr
  THEN [phase |-> "rejected", body |-> Nil, ctxBody |-> Nil, nextCalls |-> 0,
        resp |-> writeErrorResponse(StatusBadRequest,
                   "Failed to read request body", "invalid_request_error")]
  ELSE IF Len(wire.bytes) > 0 /\ ~JSONValid(wire.bytes)
  THEN [phase |-> "rejected", body |-> Nil, ctxBody |-> Nil, nextCalls |-> 0,
        resp |-> writeErrorResponse(StatusBadRequest,
                   "Request body is not valid JSON", "invalid_request_error")]
  ELSE [phase |-> "next", body |-> NewReader(wire.bytes, FALSE),
        ctxBody |-> Some(wire.bytes), nextCalls |-> 1, resp |-> NoResponse]

\* How many reads and restores of the next handler are followed.
MaxLog == 4

\* A request reaches the pre-stage.
Receive(method, wire) ==
  LET out == BufferBody(method, wire)
  IN /\ mw.phase = "idle"
     /\ mw' = [phase |-> out.phase, method |-> method, sent |-> Some(wire),
               body |-> out.body, ctxBody |-> out.ctxBody,
               nextCalls |-> out.nextCalls, resp |-> out.resp, log |-> <<>>]
     /\ UNCHANGED << handlerVars, fn, idx, procVars >>

\* The next handler reads r.Body to the end.
NextReadAll ==
  /\ mw.phase = "next"
  /\ ~IsNil(mw.body)
  /\ Len(mw.log) < MaxLog
  /\ LET got == ReadAll(Deref(mw.body))
     IN mw' = [mw EXCEPT
                 !.log = Append(@, [op |-> "read", data |-> got.data,
                                    err |-> got.err]),
                 !.body = Some([Deref(mw.body) EXCEPT
                                  !.pos = Len(Deref(mw.body).bytes)])]
  /\ UNCHANGED << handlerVars, fn, idx, procVars >>

\* The next handler calls middleware.RestoreBody(r).
NextRestoreBody ==
  /\ mw.phase = "next"
  /\ Len(mw.log) < MaxLog
  /\ mw' = [mw EXCEPT
              !.log = Append(@, [op |-> "restore", data |-> <<>>,
                                 err |-> FALSE]),
              !.body = IF IsNil(mw.ctxBody) THEN @
                       ELSE NewReader(Deref(mw.ctxBody), FALSE)]
  /\ UNCHANGED << handlerVars, fn, idx, procVars >>

NextMW ==
  \/ \E method \in Methods, wire \in WireBodies : Receive(method, wire)
  \/ NextReadAll
  \/ NextRestoreBody

\* The pre-stage and the handler behind it, on one request.
SpecMW == Init /\ [][NextMW]_vars

\* ------------------------------------------------------- index bootstrap

\* cache.DefaultCacheServiceConfig().IndexName
IndexName == "cache_idx"

\* The reply of a command the store executed without error.
ReplyOK == <<"OK">>

\* The store has an index of that name.
HasIndex(indices, name) == \E i \in DOMAIN indices : indices[i].name = name

\* FT.INFO name: the reply of the store.
FTInfo(indices, name, fault) ==
  IF fault # "ok" THEN <<"dial tcp: ", "connection refused">>
  ELSE IF HasIndex(indices, name) THEN ReplyOK
  ELSE <<"Unknown index name">>

\* FT.CREATE name ... DIM dimensions: the reply, and the indices afterwards.
\* The store refuses a second index of the same name.
FTCreate(indices, name, dimensions, fault) ==
  IF fault # "ok"
  THEN [reply |-> <<"dial tcp: ", "connection refused">>, indices |-> indices]
  ELSE IF HasIndex(indices, name)
  THEN [reply |-> <<"Index already exists">>, indices |-> indices]
  ELSE [reply |-> ReplyOK,
        indices |-> Append(indices, [name |-> name, dim |-> dimensions])]

\* strings.Contains(s, substr) for a substr that is one piece of s
Contains(s, substr) == \E i \in DOMAIN s : s[i] = substr

\* Mutation of createResult: every error of FT.CREATE is returned, also the
\* one saying that the index exists.
createResult_Strict(reply) ==
  IF reply = ReplyOK THEN Nil
  ELSE Some(<<"FT.CREATE failed: ">> \o reply)

\* CreateVectorIndex after FT.CREATE: the error it returns (Nil: none).
createResult(reply) ==
  IF reply = ReplyOK THEN Nil
  ELSE IF Contains(reply, "Index already exists") THEN Nil
  ELSE Some(<<"FT.CREATE failed: ">> \o reply)

\* NewCacheService after CreateVectorIndex returned err.
NewCacheServiceResult(err) ==
  IF IsNil(err) THEN [svc |-> Some("CacheServiceImpl"), err |-> Nil]
  ELSE [svc |-> Nil,
        err |-> Some(<<"failed to create vector index: ">> \o Deref(err))]

\* How often one process constructs a cache service.
MaxConstructions == 2

\* Process p calls NewCacheService.
BeginConstruction(p) ==
  /\ idx.procs[p].pc \in {"idle", "done"}
  /\ idx.procs[p].round < MaxConstructions
  /\ idx' = [idx EXCEPT !.procs[p] =
               [NoConstruction EXCEPT !.pc = "probe",
                                      !.round = idx.procs[p].round + 1]]
  /\ UNCHANGED << handlerVars, mw, fn, procVars >>

\* CreateVectorIndex, the existence probe: an index found ends the bootstrap.
ProbeIndex(p, fault) ==
  LET reply == FTInfo(idx.indices, IndexName, fault)
      out == NewCacheServiceResult(Nil)
  IN /\ idx.procs[p].pc = "probe"
     /\ idx' = [idx EXCEPT !.procs[p] =
                  IF reply = ReplyOK
                  THEN [@ EXCEPT !.pc = "done", !.probe = reply,
                                 !.svc = out.svc, !.err = out.err]
                  ELSE [@ EXCEPT !.pc = "create", !.probe = reply,
                                 !.faulted = (fault # "ok")]]
     /\ UNCHANGED << handlerVars, mw, fn, procVars >>

\* CreateVectorIndex, the create command, and the return of NewCacheService.
CreateIndex(p, fault) ==
  LET res == FTCreate(idx.indices, IndexName, Dimensions, fault)
      out == NewCacheServiceResult(createResult(res.reply))
  IN /\ idx.procs[p].pc = "create"
     /\ idx' = [idx EXCEPT
                  !.indices = res.indices,
                  !.procs[p] = [@ EXCEPT !.pc = "done", !.create = res.reply,
                                         !.faulted = @ \/ fault # "ok",
                                         !.svc = out.svc, !.err = out.err]]
     /\ UNCHANGED << handlerVars, mw, fn, procVars >>

NextBootstrap ==
  \/ \E p \in Procs : BeginConstruction(p)
  \/ \E p \in Procs, fault \in StoreFaults : ProbeIndex(p, fault)
  \/ \E p \in Procs, fault \in StoreFaults : CreateIndex(p, fault)

\* Processes constructing cache services against one store.
SpecBootstrap == Init /\ [][NextBootstrap]_vars

\* ------------------------------------------- functions applied on their own

\* How many messages a request carries at most.
MaxMessages == 3

Roles == {"user", "system", "assistant"}
Contents == {<<"a">>, <<"b">>, EmptyString}

RECURSIVE MessageLists(_)
\* The message lists of at most n messages.
MessageLists(n) ==
  IF n = 0 THEN {<<>>}
  ELSE LET shorter == MessageLists(n - 1)
       IN shorter \cup
          { Append(ms, Message(role, content)) :
              ms \in shorter, role \in Roles, content \in Contents }

\* The arguments of ExtractQueryText: no request, and the decoded requests.
ChatRequests ==
  {Nil} \cup { Some([messages |-> ms]) : ms \in MessageLists(MaxMessages) }

\* A caller is about to apply ExtractQueryText to a request.
InitExtract ==
  /\ HandlerIdle
  /\ mw = NoBuffering
  /\ idx = NoBootstrap
  /\ ProcIdle
  /\ \E chatReq \in ChatRequests :
       fn = [name |-> "ExtractQueryText", arg |-> chatReq, outs |-> <<>>]

\* How often a function is invoked on the same argument.
MaxInvocations == 3

CallExtractQueryText ==
  /\ fn.name = "ExtractQueryText"
  /\ Len(fn.outs) < MaxInvocations
  /\ fn' = [fn EXCEPT !.outs = Append(@, ExtractQueryText(fn.arg))]
  /\ UNCHANGED << handlerVars, mw, idx, procVars >>

\* The characters of the query texts hashed on their own.
Alphabet == {"a", "b", "c", " "}

\* How long these texts are at most.
MaxText == 3

RECURSIVE Texts(_)
\* The texts of at most n characters.
Texts(n) ==
  IF n = 0 THEN {<<>>}
  ELSE LET shorter == Texts(n - 1)
       IN shorter \cup { Append(t, c) : t \in shorter, c \in Alphabet }

\* A caller is about to hash a query text.
InitHash ==
  /\ HandlerIdle
  /\ mw = NoBuffering
  /\ idx = NoBootstrap
  /\ ProcIdle
  /\ \E text \in Texts(MaxText) :
       fn = [name |-> "ComputeQueryHash", arg |-> text, outs |-> <<>>]

\* Mutation of CallComputeQueryHash: every invocation salts the text with
\* the number of invocations made before it.
CallComputeQueryHash_Salted ==
  /\ fn.name = "ComputeQueryHash"
  /\ Len(fn.outs) < MaxInvocations
  /\ fn' = [fn EXCEPT !.outs =
              Append(@, ComputeQueryHash(fn.arg \o [i \in 1..Len(fn.outs) |-> "s"]))]
  /\ now' = now + 1
  /\ UNCHANGED << pc, bodyBytes, queryText, queryHash, exactMatch,
                  embeddingVec, similar, upstream, resp, calls, tasks, redis,
                  globalStats, lastWriter, servedFrom, settled, ctxDone,
                  startTime, panicked, mw, idx, procVars >>

\* One more invocation of ComputeQueryHash on the same text, later.
CallComputeQueryHash ==
  /\ fn.name = "ComputeQueryHash"
  /\ Len(fn.outs) < MaxInvocations
  /\ fn' = [fn EXCEPT !.outs = Append(@, ComputeQueryHash(fn.arg))]
  /\ now' = now + 1
  /\ UNCHANGED << pc, bodyBytes, queryText, queryHash, exactMatch,
                  embeddingVec, similar, upstream, resp, calls, tasks, redis,
                  globalStats, lastWriter, servedFrom, settled, ctxDone,
                  startTime, panicked, mw, idx, procVars >>

NextHash == CallComputeQueryHash

SpecHash == InitHash /\ [][NextHash]_vars

\* url.URL, the fields the proxy uses.  Strings are sequences of pieces, so
\* that a prefix of a string is a prefix of its pieces.
URL(scheme, host, path, rawQuery) ==
  [Scheme |-> scheme, Host |-> host, Path |-> path, RawQuery |-> rawQuery]

\* (*url.URL).String(): scheme://host path, and ?query when there is one.
URLString(u) ==
  <<u.Scheme, "://", u.Host>> \o u.Path
    \o (IF u.RawQuery = EmptyString THEN <<>> ELSE <<"?">> \o u.RawQuery)

\* strings.HasPrefix(s, prefix)
HasPrefix(s, prefix) ==
  Len(s) >= Len(prefix) /\ SubSeq(s, 1, Len(prefix)) = prefix

\* Mutation of buildUpstreamURL: the base path is put in front of every
\* request path, also one that starts with it.
buildUpstreamURL_AlwaysAppend(upstreamURL, path, rawQuery) ==
  LET basePath == upstreamURL.Path
  IN URLString([upstreamURL EXCEPT
       !.Path = IF basePath # EmptyString /\ basePath # <<"/">>
                THEN basePath \o path
                ELSE path,
       !.RawQuery = rawQuery])

\* Proxy.buildUpstreamURL(path, rawQuery) for the configured upstream URL.
buildUpstreamURL(upstreamURL, path, rawQuery) ==
  LET basePath == upstreamURL.Path
  IN URLString([upstreamURL EXCEPT
       !.Path = IF basePath = EmptyString \/ basePath = <<"/">> THEN path
                ELSE IF HasPrefix(path, basePath) THEN path
                ELSE basePath \o path,
       !.RawQuery = rawQuery])

\* The base paths an upstream URL is configured with.
BasePaths == { EmptyString, <<"/">>, <<"/", "v1">> }

\* The paths and queries of the requests forwarded.
RequestPaths ==
  { <<"/", "chat", "/", "completions">>,
    <<"/", "v1", "/", "chat", "/", "completions">>,
    <<"/", "v1", "beta", "/", "chat">>,
    <<"/", "models">> }

RawQueries == { EmptyString, <<"stream=1">>, <<"a=1", "&", "b=2">> }

\* The proxy is about to build the outbound URL of a request.
InitURL ==
  /\ HandlerIdle
  /\ mw = NoBuffering
  /\ idx = NoBootstrap
  /\ ProcIdle
  /\ \E base \in BasePaths, path \in RequestPaths, rawQuery \in RawQueries :
       fn = [name |-> "buildUpstreamURL",
             arg |-> [upstreamURL |-> URL("https", "api.openai.com", base, EmptyString),
                      path |-> path, rawQuery |-> rawQuery],
             outs |-> <<>>]

CallBuildUpstreamURL ==
  /\ fn.name = "buildUpstreamURL"
  /\ Len(fn.outs) < MaxInvocations
  /\ fn' = [fn EXCEPT !.outs =
              Append(@, buildUpstreamURL(fn.arg.upstreamURL, fn.arg.path,
                                         fn.arg.rawQuery))]
  /\ UNCHANGED << handlerVars, mw, idx, procVars >>

NextURL == CallBuildUpstreamURL

SpecURL == InitURL /\ [][NextURL]_vars

\* The request headers followed through the proxy.
RequestHeaderNames ==
  { "Authorization", "Content-Type", "X-Custom",
    "Connection", "Keep-Alive", "Proxy-Authenticate", "Proxy-Authorization",
    "Te", "Trailers", "Transfer-Encoding", "Upgrade" }

\* copyHeaders: the keys of its hopByHopHeaders map.
hopByHopHeaders ==
  { "Connection", "Keep-Alive", "Proxy-Authenticate", "Proxy-Authorization",
    "Te", "Trailers", "Transfer-Encoding", "Upgrade" }

\* The header of a request just created: no values.
NoRequestHeader == [h \in RequestHeaderNames |-> <<>>]

\* copyHeaders(src, dst): every value of every header that is not hop-by-hop
\* is added to dst.
copyHeaders(src, dst) ==
  [h \in RequestHeaderNames |->
     IF h \in hopByHopHeaders THEN dst[h] ELSE dst[h] \o src[h]]

\* Mutation of ForwardHeader: the server's key is added next to the client's
\* Authorization values (Header.Add) instead of replacing them (Header.Set).
ForwardHeader_AddKey(apiKey, reqHeader) ==
  LET copied == copyHeaders(reqHeader, NoRequestHeader)
  IN IF apiKey # ""
     THEN [copied EXCEPT !["Authorization"] = @ \o <<"Bearer " \o apiKey>>]
     ELSE copied

\* Proxy.Forward, the header of the outbound request: the client's headers
\* copied, and Authorization set from the configured key when there is one.
ForwardHeader(apiKey, reqHeader) ==
  LET copied == copyHeaders(reqHeader, NoRequestHeader)
  IN IF apiKey # ""
     THEN [copied EXCEPT !["Authorization"] = <<"Bearer " \o apiKey>>]
     ELSE copied

\* The configured upstream API keys: none, or one.
APIKeys == {"", "sk-server"}

\* What a client sends as Authorization: nothing, one value, two values.
ClientAuthorizations ==
  { <<>>, <<"Bearer sk-client">>, <<"Bearer sk-client", "Basic dXNlcg==">> }

\* The headers of a client request: an Authorization, with or without a
\* content type and a custom header of two values, and at most one
\* hop-by-hop header.
ClientHeaders ==
  { [h \in RequestHeaderNames |->
       IF h = "Authorization" THEN auth
       ELSE IF h = "Content-Type" /\ typed THEN <<"application/json">>
       ELSE IF h = "X-Custom" /\ custom THEN <<"1", "2">>
       ELSE IF h = hop THEN <<"v">>
       ELSE <<>>] :
      auth \in ClientAuthorizations, typed \in BOOLEAN, custom \in BOOLEAN,
      hop \in hopByHopHeaders \cup {"none"} }

\* The proxy is about to forward a request.
InitForwardHeader ==
  /\ HandlerIdle
  /\ mw = NoBuffering
  /\ idx = NoBootstrap
  /\ ProcIdle
  /\ \E apiKey \in APIKeys, header \in ClientHeaders :
       fn = [name |-> "Forward",
             arg |-> [APIKey |-> apiKey, Header |-> header],
             outs |-> <<>>]

CallForwardHeader ==
  /\ fn.name = "Forward"
  /\ Len(fn.outs) < MaxInvocations
  /\ fn' = [fn EXCEPT !.outs =
              Append(@, ForwardHeader(fn.arg.APIKey, fn.arg.Header))]
  /\ UNCHANGED << handlerVars, mw, idx, procVars >>

NextForwardHeader == CallForwardHeader

SpecForwardHeader == InitForwardHeader /\ [][NextForwardHeader]_vars

NextExtract == CallExtractQueryText

SpecExtract == InitExtract /\ [][NextExtract]_vars

\* ------------------------------------------------------- reading the state

Done(r) == pc[r] = "done"

\* How often the collaborator call `op` was made for request r.
Count(r, op) == Cardinality({ i \in DOMAIN calls[r] : calls[r][i] = op })

\* The request carried a decodable envelope with a non-empty user query.
WellFormed(r) == pc[r] # "idle" /\ queryText[r] # EmptyString

CacheStatus(r) == resp[r].header["X-Cache-Status"]

ExactErr(r) == Count(r, "CheckExactMatch") = 1 /\ exactMatch[r].err
ExactMiss(r) ==
  Count(r, "CheckExactMatch") = 1 /\ ~exactMatch[r].err /\ IsNil(exactMatch[r].entry)
ExactHit(r) ==
  Count(r, "CheckExactMatch") = 1 /\ ~exactMatch[r].err /\ ~IsNil(exactMatch[r].entry)
EmbedErr(r) == Count(r, "Generate") = 1 /\ IsNil(embeddingVec[r])
SearchErr(r) == Count(r, "SearchSimilar") = 1 /\ similar[r].err

\* Forward returned a response and its body was read.
UpstreamAnswered(r) ==
  /\ ~IsNil(upstream[r])
  /\ Deref(upstream[r]).kind = "response"
  /\ ~Deref(upstream[r]).readErr

\* Forward returned an error, or the body of its response could not be read.
UpstreamFailed(r) == ~IsNil(upstream[r]) /\ ~UpstreamAnswered(r)

\* The response is an error body written by writeError.
IsErrorResponse(r) ==
  /\ resp[r].status # 0
  /\ Len(resp[r].body) = 5
  /\ resp[r].body = ErrorBody(resp[r].body[2], resp[r].body[4])

\* The response is the upstream's answer: its status and body, marked MISS.
ServedMiss(r) ==
  /\ UpstreamAnswered(r)
  /\ resp[r].status = Deref(upstream[r]).StatusCode
  /\ resp[r].body = Deref(upstream[r]).Body
  /\ CacheStatus(r) = <<"MISS">>

\* The response is 200 with the body of a cache entry, marked HIT.
ServedHit(r, entry) ==
  /\ resp[r].status = StatusOK
  /\ resp[r].body = entry.llm_response
  /\ CacheStatus(r) = <<"HIT">>

\* Similarity of request r's vector with an indexed document, in hundredths.
SimilarityWith(r, doc) ==
  100 - CosineDistance(doc.embedding, Deref(embeddingVec[r]))

\* --------------------------------------------------------------------- claims

\* C1 (as stated): for a request with a decodable envelope and a non-empty
\* query, whenever CheckExactMatch, Generate or SearchSimilar returned an error
\* the request is forwarded to the upstream and the client receives the
\* upstream's answer with X-Cache-Status MISS, or 502 when the upstream failed.
C1_AsStated ==
  \A r \in Requests :
    (Done(r) /\ WellFormed(r) /\ (ExactErr(r) \/ EmbedErr(r) \/ SearchErr(r)))
      => /\ Count(r, "Forward") = 1
         /\ UpstreamAnswered(r) => ServedMiss(r)
         /\ UpstreamFailed(r) => resp[r].status = StatusBadGateway

\* C1 (amended): no error of CheckExactMatch, Generate or SearchSimilar produces
\* an error response.  After such an error the request is either served HIT by
\* the vector search (possible only when the exact lookup was the call that
\* failed) or forwarded once to the upstream and answered with the upstream's
\* answer marked MISS; an error response to a well-formed request is 502 and is
\* written only when Forward or the read of its body failed.
C1_FailOpen ==
  \A r \in Requests :
    (Done(r) /\ WellFormed(r))
      => /\ IsErrorResponse(r)
              => resp[r].status = StatusBadGateway /\ UpstreamFailed(r)
         /\ (ExactErr(r) \/ EmbedErr(r) \/ SearchErr(r))
              => \/ /\ ExactErr(r) /\ ~EmbedErr(r) /\ ~SearchErr(r)
                    /\ ~IsNil(similar[r].entry)
                    /\ ServedHit(r, Deref(similar[r].entry))
                    /\ Count(r, "Forward") = 0
                 \/ /\ Count(r, "Forward") = 1
                    /\ UpstreamAnswered(r) => ServedMiss(r)
                    /\ UpstreamFailed(r)
                         => IsErrorResponse(r) /\ resp[r].status = StatusBadGateway

\* C1 witness: the exact lookup and the vector search both failed and the
\* request was answered by the upstream with 200 and MISS.
C1_Witness ==
  \E r \in Requests :
    /\ Done(r) /\ ExactErr(r) /\ SearchErr(r)
    /\ ServedMiss(r) /\ resp[r].status = StatusOK

\* C2: when CheckExactMatch returns an entry without error the answer is 200,
\* HIT, with the entry's llm_response as body, and CheckExactMatch is the only
\* collaborator call made for the request: no Generate, SearchSimilar, Forward
\* or StoreAsync.
C2_ExactHit ==
  \A r \in Requests :
    (pc[r] \notin {"idle", "exact"} /\ ExactHit(r))
      => /\ Done(r)
         /\ ServedHit(r, Deref(exactMatch[r].entry))
         /\ resp[r].header["X-Request-ID"] = <<RequestID(r)>>
         /\ calls[r] = <<"CheckExactMatch">>
         /\ tasks[r] = NoTask
         /\ IsNil(upstream[r])

\* C2 witness: a request was served from an entry the exact lookup returned.
C2_Witness ==
  \E r \in Requests :
    Done(r) /\ ExactHit(r) /\ Len(Deref(exactMatch[r].entry).llm_response) > 0

\* C3: a request whose exact lookup missed and whose vector search found a
\* cached entry with similarity strictly above the threshold is answered 200,
\* HIT, with that entry's llm_response; the upstream is never called and no
\* write-behind is enqueued.
C3_SemanticHit ==
  \A r \in Requests :
    ( /\ Done(r) /\ ExactMiss(r)
      /\ Count(r, "SearchSimilar") = 1 /\ ~similar[r].err
      /\ ~IsNil(similar[r].neighbour)
      /\ SimilarityWith(r, Deref(similar[r].neighbour)) > threshold )
      => /\ ServedHit(r, UnmarshalEntry(Deref(similar[r].neighbour)))
         /\ Count(r, "Forward") = 0 /\ IsNil(upstream[r])
         /\ Count(r, "StoreAsync") = 0 /\ tasks[r] = NoTask

\* C3 witness: a paraphrase (another query, similarity 0.98) was served from
\* the entry cached for the first query.
C3_Witness ==
  \E r \in Requests :
    /\ Done(r) /\ ExactMiss(r) /\ ~IsNil(similar[r].neighbour)
    /\ Deref(similar[r].neighbour).user_query # queryText[r]
    /\ SimilarityWith(r, Deref(similar[r].neighbour)) > threshold
    /\ CacheStatus(r) = <<"HIT">>

\* C4: for every search that returned at least one result, SearchSimilar
\* returns an entry exactly when the top-1 similarity is strictly above the
\* threshold, and reports that similarity; at the threshold or below the entry
\* is nil and the request goes to the upstream, whose answer is served MISS.
C4_StrictThreshold ==
  \A r \in Requests :
    (Count(r, "SearchSimilar") = 1 /\ ~similar[r].err /\ ~IsNil(similar[r].neighbour))
      => /\ similar[r].similarity = SimilarityWith(r, Deref(similar[r].neighbour))
         /\ ~IsNil(similar[r].entry) <=> similar[r].similarity > threshold
         /\ ~IsNil(similar[r].entry)
              => Deref(similar[r].entry) = UnmarshalEntry(Deref(similar[r].neighbour))
         /\ (similar[r].similarity <= threshold /\ Done(r))
              => /\ Count(r, "Forward") = 1
                 /\ UpstreamAnswered(r) => ServedMiss(r)

\* C4 witness: a neighbour exactly at the threshold, and the request served
\* MISS by the upstream.
C4_Witness ==
  \E r \in Requests :
    /\ Done(r) /\ Count(r, "SearchSimilar") = 1 /\ ~similar[r].err
    /\ ~IsNil(similar[r].neighbour)
    /\ similar[r].similarity = threshold
    /\ ServedMiss(r)

\* C5: a request b that arrives after the write-behind of an earlier request a
\* has stored its entry, carries the same query as a, and whose exact lookup
\* ran without a store fault, observes HIT with a body equal to the upstream
\* body that was returned to a, and the upstream is not called for b.
C5_HitAfterWriteBehind ==
  \A a \in Requests, b \in Requests :
    ( /\ a \in settled[b]
      /\ queryText[a] = queryText[b]
      /\ ServedMiss(a)
      /\ Done(b) /\ ~ExactErr(b) )
      => /\ CacheStatus(b) = <<"HIT">>
         /\ resp[b].body = Deref(upstream[a]).Body
         /\ Count(b, "Forward") = 0

\* C6 (as stated): on a miss served by the upstream, StoreAsync is called
\* exactly once when the upstream status is 200, and is not called for any
\* other status.
C6_AsStated ==
  \A r \in Requests :
    (Done(r) /\ ServedMiss(r))
      => /\ resp[r].status = StatusOK => Count(r, "StoreAsync") = 1
         /\ resp[r].status # StatusOK => Count(r, "StoreAsync") = 0

\* C6 (amended): on a miss served by the upstream, StoreAsync is called, exactly
\* once, if and only if the upstream status is 200 and embedding Generate
\* returned a vector for the request; the entry enqueued carries the request's
\* fingerprint, query text and embedding, the upstream body and a positive
\* timestamp.  A request served any other way never calls StoreAsync.
C6_WriteBehindGate ==
  \A r \in Requests :
    /\ Count(r, "StoreAsync") <= 1
    /\ (Count(r, "StoreAsync") = 1) <=> (tasks[r] # NoTask)
    /\ Done(r) =>
         ( (Count(r, "StoreAsync") = 1)
             <=> /\ ServedMiss(r)
                 /\ resp[r].status = StatusOK
                 /\ Count(r, "Generate") = 1 /\ ~IsNil(embeddingVec[r]) )
    /\ tasks[r] # NoTask =>
         LET e == Deref(tasks[r].entry) IN
           /\ e.query_hash = queryHash[r]
           /\ e.user_query = queryText[r]
           /\ e.embedding = Deref(embeddingVec[r])
           /\ e.llm_response = Deref(upstream[r]).Body
           /\ e.created_at > 0

\* C6 witness: one request stored after an upstream 200, and another one
\* answered by an upstream 200 without a store because it has no embedding.
C6_Witness ==
  \E r \in Requests, q \in Requests :
    /\ Done(r) /\ ServedMiss(r) /\ resp[r].status = StatusOK
    /\ Count(r, "StoreAsync") = 1
    /\ Done(q) /\ ServedMiss(q) /\ resp[q].status = StatusOK
    /\ EmbedErr(q) /\ Count(q, "StoreAsync") = 0

\* C7: when the exact lookup misses and embedding Generate returns an error,
\* SearchSimilar is never called, the request is forwarded once and answered
\* with the upstream's status and body marked MISS, and StoreAsync is never
\* called, whatever the upstream status.
C7_EmbeddingFailure ==
  \A r \in Requests :
    (ExactMiss(r) /\ EmbedErr(r))
      => /\ Count(r, "SearchSimilar") = 0
         /\ pc[r] \in {"forward", "done"}
         /\ Count(r, "StoreAsync") = 0 /\ tasks[r] = NoTask
         /\ Done(r) => /\ Count(r, "Forward") = 1
                       /\ UpstreamAnswered(r) => ServedMiss(r)

\* C7 witness: the embedding failed and the upstream's 200 was served MISS.
C7_Witness ==
  \E r \in Requests :
    /\ Done(r) /\ ExactMiss(r) /\ EmbedErr(r)
    /\ ServedMiss(r) /\ resp[r].status = StatusOK

\* C8: when Forward fails or the body of its response cannot be read, the
\* response is 502 with an error body of type upstream_error, and no
\* write-behind is enqueued.
C8_UpstreamFailure ==
  \A r \in Requests :
    (Done(r) /\ UpstreamFailed(r))
      => /\ resp[r].status = StatusBadGateway
         /\ \E message \in {"Upstream request failed", "Failed to read upstream response"} :
              resp[r].body = ErrorBody(message, "upstream_error")
         /\ resp[r].header["Content-Type"] = <<"application/json">>
         /\ Count(r, "StoreAsync") = 0 /\ tasks[r] = NoTask

\* C8 witness: a request with an embedding got 502 because the upstream's body
\* could not be read.
C8_Witness ==
  \E r \in Requests :
    /\ Done(r) /\ UpstreamFailed(r) /\ Deref(upstream[r]).kind = "response"
    /\ ~IsNil(embeddingVec[r])
    /\ resp[r].status = StatusBadGateway

Unusable(b) ==
  \/ b.kind \in {"nil", "empty", "malformed"}
  \/ /\ b.kind = "envelope"
     /\ \A i \in 1..Len(b.messages) : b.messages[i].role # "user"

\* C11: a request whose buffered body is absent, empty or not a decodable
\* envelope, or whose envelope has no user message, is answered 400 with an
\* invalid_request_error body, and none of CheckExactMatch, Generate,
\* SearchSimilar, Forward or StoreAsync is called for it.
C11_Rejected ==
  \A r \in Requests :
    (pc[r] # "idle" /\ Unusable(bodyBytes[r]))
      => /\ Done(r)
         /\ resp[r].status = StatusBadRequest
         /\ IsErrorResponse(r) /\ resp[r].body[4] = "invalid_request_error"
         /\ calls[r] = <<>>
         /\ tasks[r] = NoTask
         /\ IsNil(upstream[r])

\* C11 witness: every kind of unusable body has been rejected: one request
\* with an envelope that has only a system message, the other with a body that
\* does not decode.
C11_Witness ==
  \E r \in Requests, q \in Requests :
    /\ Done(r) /\ bodyBytes[r].kind = "envelope" /\ Unusable(bodyBytes[r])
    /\ resp[r].status = StatusBadRequest
    /\ Done(q) /\ bodyBytes[q].kind = "malformed"
    /\ resp[q].status = StatusBadRequest

\* C12: the write-behind of a request is started only in the handler step that
\* has written the client's response (the upstream's status, headers and body),
\* and the request does not wait for it: in the step that calls StoreAsync the
\* task is left pending, the store is not written, and the request is in
\* its terminal state; the later completion of the task, stored or failed,
\* changes neither the request's state nor its response.
C12_WriteBehindDetached ==
  [][ \A r \in Requests :
        /\ (tasks[r].state = "none" /\ tasks'[r].state # "none")
             => /\ tasks'[r].state = "pending"
                /\ redis' = redis
                /\ ~IsNil(upstream'[r])
                /\ resp'[r] = writeUpstreamResponse(Deref(upstream'[r]), RequestID(r))
                /\ resp'[r].status = StatusOK
                /\ pc'[r] = "done"
        /\ (tasks[r].state = "pending" /\ tasks'[r].state # "pending")
             => /\ pc[r] = "done"
                /\ pc' = pc
                /\ resp' = resp
                /\ upstream' = upstream ]_vars

\* C12 witness: a request is in its terminal state, answered 200, while its
\* write-behind has not completed.
C12_Witness ==
  \E r \in Requests :
    /\ Done(r) /\ resp[r].status = StatusOK
    /\ tasks[r].state = "pending"
    /\ redis = EmptyStore

\* C13: once StoreAsync has been called, the request's context being done
\* (client gone, handler returned) does not cancel the store write: every
\* write-behind runs while its request's context is already done, and it fails
\* only when the store command itself fails or the entry is invalid; a write
\* the store answers for a valid entry is stored.
C13_DetachedContext ==
  \A r \in Requests :
    /\ tasks[r].state # "none" => ctxDone[r]
    /\ (tasks[r].state \in {"stored", "failed"} /\ tasks[r].fault = "ok"
          /\ ~validateCacheEntry(tasks[r].entry))
         => /\ tasks[r].state = "stored"
            /\ Deref(tasks[r].entry).query_hash
                 \in { redis[k].query_hash : k \in DOMAIN redis }

\* C13 witness: a write-behind stored its entry after the request's context
\* was done.
C13_Witness ==
  \E r \in Requests :
    /\ ctxDone[r] /\ Done(r)
    /\ tasks[r].state = "stored" /\ tasks[r].fault = "ok"
    /\ CacheKeyFromHash(queryHash[r]) \in DOMAIN redis

\* C14: for every entry passed to StoreAsync, a nil or an invalid one included,
\* and every store failure, the failure of a write-behind task is only logged:
\* no response changes, the process does not panic, and no other in-flight
\* write-behind task is ended by it.
C14_FailuresOnlyLogged ==
  /\ ~panicked
  /\ \A r \in Requests :
       /\ tasks[r].state \in {"none", "pending", "stored", "failed"}
       /\ tasks[r].state = "failed"
            => IF IsNil(upstream[r]) THEN resp[r] = NoResponse
               ELSE resp[r] = writeUpstreamResponse(Deref(upstream[r]), RequestID(r))

\* The upstream body is text that the JSON string encoding leaves as it is.
IsText(body) == \A i \in 1..Len(body) : body[i] # InvalidUTF8

C16_CreatedByWriteBehind ==
  /\ \A key \in DOMAIN redis :
       /\ key \in DOMAIN lastWriter
       /\ LET w == lastWriter[key]
          IN /\ tasks[w].state = "stored"
             /\ Count(w, "StoreAsync") = 1
             /\ ServedMiss(w)
             /\ Deref(upstream[w]).StatusCode \in 200..299
             /\ redis[key].query_hash = queryHash[w]
             /\ key = CacheKeyFromHash(queryHash[w])
  /\ \A r \in Requests :
       (Done(r) /\ (CacheStatus(r) = <<"HIT">> \/ IsErrorResponse(r)))
         => /\ tasks[r] = NoTask
            /\ Count(r, "StoreAsync") = 0
            /\ \A key \in DOMAIN lastWriter : lastWriter[key] # r

\* C16 witness: the store holds an entry, one request was served HIT from it
\* and the other is the request whose write-behind created it.
C16_Witness ==
  \E r \in Requests, q \in Requests :
    /\ Done(r) /\ CacheStatus(r) = <<"HIT">>
    /\ tasks[q].state = "stored"
    /\ Cardinality(DOMAIN redis) = 1
    /\ \A key \in DOMAIN redis : lastWriter[key] = q

\* C17 (as stated): once an entry has been written under a key, nothing the
\* gateway does later changes the document stored under that key: the
\* document every completed write-behind wrote is still the one in the store.
C17_AsStated ==
  \A r \in Requests :
    tasks[r].state = "stored"
      => LET key == CacheKeyFromHash(queryHash[r])
         IN /\ key \in DOMAIN redis
            /\ redis[key] = MarshalEntry([Deref(tasks[r].entry) EXCEPT !.id = key])

\* C17 (amended): a stored document is never deleted and never changed in
\* part.  The only step that changes the document under a key is the
\* completion of a later write-behind for the same fingerprint, which replaces
\* the whole document by its own entry (last write wins); lookups, hits,
\* forwards and failed writes leave every stored document as it is.
C17_ReplacedOnlyWhole ==
  [][ \A key \in DOMAIN redis :
        /\ key \in DOMAIN redis'
        /\ redis'[key] # redis[key]
             => \E r \in Requests :
                  /\ tasks[r].state = "pending" /\ tasks'[r].state = "stored"
                  /\ key = CacheKeyFromHash(queryHash[r])
                  /\ redis'[key] =
                       MarshalEntry([Deref(tasks[r].entry) EXCEPT !.id = key]) ]_vars

\* C17 witness: the document one write-behind stored has been replaced by the
\* write-behind of the other request for the same fingerprint.
C17_Witness ==
  \E r \in Requests, q \in Requests :
    /\ r # q /\ queryHash[r] = queryHash[q]
    /\ tasks[r].state = "stored" /\ tasks[q].state = "stored"
    /\ lastWriter[CacheKeyFromHash(queryHash[r])] = r
    /\ redis[CacheKeyFromHash(queryHash[r])].llm_response
         # MarshalString(Deref(upstream[q]).Body)

\* The entry of a write-behind task lacks something store requires.
Incomplete(entry) ==
  \/ IsNil(entry)
  \/ Deref(entry).query_hash = <<>>
  \/ Deref(entry).user_query = <<>>
  \/ Deref(entry).embedding = <<>>
  \/ Deref(entry).llm_response = <<>>

C19_DimensionD ==
  /\ \A text \in {QueryA, QueryB, QueryC}, reply \in EmbeddingReplies :
       LET g == Generate(text, reply)
       IN /\ (reply.kind = "data" /\ reply.len # Dimensions)
               => (g.err /\ IsNil(g.vec))
          /\ ~g.err => Len(Deref(g.vec)) = Dimensions
          /\ (reply.kind = "data" /\ reply.len = Dimensions) => ~g.err
  /\ \A r \in Requests :
       /\ ~IsNil(embeddingVec[r]) => Len(Deref(embeddingVec[r])) = Dimensions
       /\ Count(r, "SearchSimilar") > 0
            => /\ ~IsNil(embeddingVec[r])
               /\ Len(Deref(embeddingVec[r])) = Dimensions
       /\ tasks[r].state # "none"
            => Len(Deref(tasks[r].entry).embedding) = Dimensions
  /\ \A key \in DOMAIN redis : Len(redis[key].embedding) = Dimensions

\* C19 witness: one request searched with its vector and its write-behind
\* persisted the vector, while the embedding of the other request failed.
C19_Witness ==
  \E r \in Requests, q \in Requests :
    /\ Count(r, "SearchSimilar") = 1
    /\ tasks[r].state = "stored"
    /\ redis[CacheKeyFromHash(queryHash[r])].embedding = Deref(embeddingVec[r])
    /\ EmbedErr(q) /\ Done(q)

\* C20 (as stated): every step in which a request reaches its terminal state
\* (hit, miss answered by the upstream, 400 rejection, 502 upstream failure)
\* increments total_requests by one, increments exactly one of the hit, miss
\* and error counters by one and leaves the other two alone, and adds the
\* request's elapsed milliseconds to the latency total.
C20_EveryTerminalCounted ==
  [][ \A r \in Requests :
        (pc[r] # "done" /\ pc'[r] = "done")
          => /\ globalStats'.TotalRequests = globalStats.TotalRequests + 1
             /\ \/ /\ globalStats'.CacheHits = globalStats.CacheHits + 1
                   /\ globalStats'.CacheMisses = globalStats.CacheMisses
                   /\ globalStats'.Errors = globalStats.Errors
                \/ /\ globalStats'.CacheHits = globalStats.CacheHits
                   /\ globalStats'.CacheMisses = globalStats.CacheMisses + 1
                   /\ globalStats'.Errors = globalStats.Errors
                \/ /\ globalStats'.CacheHits = globalStats.CacheHits
                   /\ globalStats'.CacheMisses = globalStats.CacheMisses
                   /\ globalStats'.Errors = globalStats.Errors + 1
             /\ globalStats'.TotalLatencyMs =
                  globalStats.TotalLatencyMs + (now' - startTime'[r]) ]_vars

\* The response of request r has a 2xx status.
Is2xx(r) == resp[r].status >= 200 /\ resp[r].status < 300

\* C21 (as stated): a request that ends with a 2xx response whose body is
\* identical to the body of a response already served HIT carries
\* X-Cache-Status HIT.
C21_AsStated ==
  [][ \A r \in Requests :
        ( /\ pc[r] # "done" /\ pc'[r] = "done"
          /\ resp'[r].status >= 200 /\ resp'[r].status < 300
          /\ \E q \in Requests :
               /\ Done(q) /\ CacheStatus(q) = <<"HIT">>
               /\ resp[q].body = resp'[r].body )
          => resp'[r].header["X-Cache-Status"] = <<"HIT">> ]_vars

\* C21 (amended): the header follows where the body came from, not what the
\* body is.  A 2xx response carries HIT exactly when no Forward was made for
\* the request, and its body is then the llm_response of the entry the exact
\* lookup or the vector search returned; it carries MISS exactly when the
\* upstream answered, and its body is then the upstream's, also when that
\* body is identical to the body of a HIT response.
C21_HitIffFromCache ==
  \A r \in Requests :
    (Done(r) /\ Is2xx(r)) =>
      /\ CacheStatus(r) \in {<<"HIT">>, <<"MISS">>}
      /\ CacheStatus(r) = <<"HIT">> <=> Count(r, "Forward") = 0
      /\ CacheStatus(r) = <<"HIT">>
           => \/ /\ ExactHit(r)
                 /\ resp[r].body = Deref(exactMatch[r].entry).llm_response
              \/ /\ ~ExactHit(r) /\ ~IsNil(similar[r].entry)
                 /\ resp[r].body = Deref(similar[r].entry).llm_response
      /\ CacheStatus(r) = <<"MISS">>
           => /\ UpstreamAnswered(r)
              /\ resp[r].body = Deref(upstream[r]).Body

\* C21 witness: the first request was served HIT from the store, and the
\* second, which arrived later, got a 2xx answer with the identical body from
\* the upstream and carries MISS.
C21_Witness ==
  \E q \in Requests, r \in Requests :
    /\ q < r /\ Done(q) /\ Done(r)
    /\ CacheStatus(q) = <<"HIT">>
    /\ Is2xx(r) /\ CacheStatus(r) = <<"MISS">>
    /\ resp[r].body = resp[q].body

\* C22: for a POST request whose body can be read, the pre-stage answers a
\* non-empty body that is not valid JSON with 400 and an invalid_request_error
\* body and does not call the next handler; otherwise it calls the next
\* handler exactly once and writes nothing, the request context holds the
\* original bytes, the first read of the body yields the original bytes, and
\* so does every read that follows a RestoreBody.
C22_BodyBuffer ==
  (mw.phase # "idle" /\ mw.method = "POST"
     /\ Deref(mw.sent).present /\ ~Deref(mw.sent).readErr)
    => LET bytes == Deref(mw.sent).bytes
       IN IF bytes # <<>> /\ ~JSONValid(bytes)
          THEN /\ mw.phase = "rejected"
               /\ mw.nextCalls = 0
               /\ mw.resp.status = StatusBadRequest
               /\ mw.resp.body = ErrorBody("Request body is not valid JSON",
                                           "invalid_request_error")
               /\ mw.log = <<>>
          ELSE /\ mw.phase = "next"
               /\ mw.nextCalls = 1
               /\ mw.resp = NoResponse
               /\ mw.ctxBody = Some(bytes)
               /\ \A i \in DOMAIN mw.log :
                    ( /\ mw.log[i].op = "read"
                      /\ (i = 1 \/ mw.log[i - 1].op = "restore") )
                      => (mw.log[i].data = bytes /\ ~mw.log[i].err)

\* C22 witness: a POST body of three tokens was handed on; the handler read
\* it, read it again and got nothing, restored it and read the original
\* bytes once more.
C22_Witness ==
  /\ mw.phase = "next" /\ mw.method = "POST"
  /\ Deref(mw.sent).bytes = <<"[", "1", "]">>
  /\ Len(mw.log) = 4
  /\ mw.log[1].op = "read" /\ mw.log[1].data = <<"[", "1", "]">>
  /\ mw.log[2].op = "read" /\ mw.log[2].data = <<>>
  /\ mw.log[3].op = "restore"
  /\ mw.log[4].op = "read" /\ mw.log[4].data = <<"[", "1", "]">>

\* The user messages of a list, in message order.
UserMessages(messages) == SelectSeq(messages, LAMBDA m : m.role = "user")

\* The contents of a list of messages written one after the other with one
\* space between neighbours.
SpaceSeparated(messages) ==
  LET acc[i \in 0..Len(messages)] ==
        IF i = 0 THEN <<>>
        ELSE IF i = 1 THEN messages[1].content
        ELSE acc[i - 1] \o <<" ">> \o messages[i].content
  IN acc[Len(messages)]

\* C23: what ExtractQueryText returns is exactly the contents of the messages
\* whose role is user, in message order, with a single space between
\* neighbours and nothing of any other message; it is the empty string when
\* there is no request or no user message.
C23_UserMessagesJoined ==
  (fn.name = "ExtractQueryText") =>
    \A i \in DOMAIN fn.outs :
      IF IsNil(fn.arg) THEN fn.outs[i] = <<>>
      ELSE LET users == UserMessages(Deref(fn.arg).messages)
           IN /\ fn.outs[i] = SpaceSeparated(users)
              /\ users = <<>> => fn.outs[i] = <<>>

\* C23 witness: from user a, an assistant message, user b the function has
\* returned a b.
C23_Witness ==
  /\ fn.name = "ExtractQueryText"
  /\ ~IsNil(fn.arg)
  /\ Len(Deref(fn.arg).messages) = 3
  /\ Deref(fn.arg).messages[1] = Message("user", <<"a">>)
  /\ Deref(fn.arg).messages[2].role = "assistant"
  /\ Deref(fn.arg).messages[3] = Message("user", <<"b">>)
  /\ Len(fn.outs) > 0
  /\ fn.outs[1] = <<"a", " ", "b">>

\* The lowercase hexadecimal digits.
LowerHex ==
  {"0", "1", "2", "3", "4", "5", "6", "7", "8", "9", "a", "b", "c", "d", "e", "f"}

Outbound(path, rawQuery) ==
  <<"https", "://", "api.openai.com">> \o path
    \o (IF rawQuery = <<>> THEN <<>> ELSE <<"?">> \o rawQuery)

C26_OutboundHeaders ==
  (fn.name = "Forward") =>
    \A i \in DOMAIN fn.outs :
      LET out == fn.outs[i]
          sent == fn.arg.Header
      IN /\ fn.arg.APIKey # ""
              => out["Authorization"] = <<"Bearer " \o fn.arg.APIKey>>
         /\ fn.arg.APIKey = ""
              => out["Authorization"] = sent["Authorization"]
         /\ \A h \in { "Connection", "Keep-Alive", "Proxy-Authenticate",
                       "Proxy-Authorization", "Te", "Trailers",
                       "Transfer-Encoding", "Upgrade" } : out[h] = <<>>
         /\ out["Content-Type"] = sent["Content-Type"]
         /\ out["X-Custom"] = sent["X-Custom"]

\* C26 witness: with the key sk-server configured, a request that came with
\* two Authorization values, a Connection header and a custom header has gone
\* out with Bearer sk-server alone, without Connection and with the custom
\* header.
C26_Witness ==
  /\ fn.name = "Forward"
  /\ fn.arg.APIKey = "sk-server"
  /\ Len(fn.arg.Header["Authorization"]) = 2
  /\ fn.arg.Header["Connection"] = <<"v">>
  /\ fn.arg.Header["X-Custom"] = <<"1", "2">>
  /\ Len(fn.outs) > 0
  /\ fn.outs[1]["Authorization"] = <<"Bearer sk-server">>
  /\ fn.outs[1]["Connection"] = <<>>
  /\ fn.outs[1]["X-Custom"] = <<"1", "2">>

\* C27: a Forward that ends because its context was cancelled or the proxy's
\* timeout elapsed returns an error and no response, and the request is then
\* answered with 502 and the upstream error body, nothing being handed to the
\* write-behind path; and whenever the request's context is already done when
\* Forward is called, that is how Forward ends.
C27_CancellationAborts ==
  [][ \A r \in Requests :
        (pc[r] = "forward" /\ pc'[r] = "done")
          => LET up == Deref(upstream'[r])
             IN /\ ctxDone[r] => (up.kind = "error" /\ up.cause = "canceled")
                /\ (up.kind = "error" /\ up.cause \in {"canceled", "timeout"})
                     => /\ up.StatusCode = 0 /\ up.Body = <<>>
                        /\ resp'[r].status = StatusBadGateway
                        /\ resp'[r].body = ErrorBody("Upstream request failed",
                                                     "upstream_error")
                        /\ resp'[r].header["X-Cache-Status"] = <<>>
                        /\ tasks'[r] = NoTask ]_vars

\* C27 witness: the Forward of one request was ended by the cancellation of
\* its context and the Forward of the other by the timeout, and both requests
\* were answered with 502.
C27_Witness ==
  \E r \in Requests, q \in Requests :
    /\ Done(r) /\ ~IsNil(upstream[r])
    /\ Deref(upstream[r]).cause = "canceled"
    /\ resp[r].status = StatusBadGateway
    /\ Done(q) /\ ~IsNil(upstream[q])
    /\ Deref(upstream[q]).cause = "timeout"
    /\ resp[q].status = StatusBadGateway

\* C28: index bootstrap is idempotent.  The store never holds more than one
\* index of the name.  A construction no command of which met a store fault
\* returns a service, however many constructions went before and whatever the
\* other process does meanwhile; a construction returns a service exactly when
\* the probe found the index, the create command succeeded or the create
\* command answered that the index exists, and then the store holds exactly
\* one index; after any other reply of the create command it returns an error
\* and no service.
C28_BootstrapIdempotent ==
  /\ Len(idx.indices) <= 1
  /\ \A p \in Procs :
       LET c == idx.procs[p]
       IN c.pc = "done" =>
            /\ ~c.faulted => ~IsNil(c.svc)
            /\ IsNil(c.svc) <=> ~IsNil(c.err)
            /\ ~IsNil(c.svc)
                 <=> \/ c.probe = <<"OK">>
                     \/ c.create = <<"OK">>
                     \/ c.create = <<"Index already exists">>
            /\ ~IsNil(c.svc) => Len(idx.indices) = 1

\* C28 witness: two processes probed before either created; one created the
\* index, the other was told that it exists; both got their service and
\* there is one index.
C28_Witness ==
  \E p \in Procs, q \in Procs :
    /\ idx.procs[p].pc = "done" /\ idx.procs[q].pc = "done"
    /\ idx.procs[p].create = <<"OK">>
    /\ idx.procs[q].probe = <<"Unknown index name">>
    /\ idx.procs[q].create = <<"Index already exists">>
    /\ ~IsNil(idx.procs[p].svc) /\ ~IsNil(idx.procs[q].svc)
    /\ Len(idx.indices) = 1

\* The place of a collaborator call in the pipeline.
Stage(op) ==
  CASE op = "CheckExactMatch" -> 1
    [] op = "Generate" -> 2
    [] op = "SearchSimilar" -> 3
    [] op = "Forward" -> 4
    [] op = "StoreAsync" -> 5
    [] OTHER -> 0

\* The calls are in pipeline order, none twice, and none is made without the
\* stage it follows: everything follows the exact lookup, the search and the
\* forward follow the embedding, the enqueue follows the forward.
InPipelineOrder(s) ==
  /\ \A i \in DOMAIN s : Stage(s[i]) > 0
  /\ \A i \in DOMAIN s, j \in DOMAIN s : i < j => Stage(s[i]) < Stage(s[j])
  /\ s # <<>> => s[1] = "CheckExactMatch"
  /\ \A i \in DOMAIN s :
       /\ s[i] \in {"SearchSimilar", "Forward"} => s[i - 1] \in {"Generate", "SearchSimilar"}
       /\ s[i] = "StoreAsync" => s[i - 1] = "Forward"

\* The terminal outcomes of request r that apply to its response.
Outcomes(r) ==
  { o \in {"hit", "miss", "400", "502"} :
      \/ o = "hit" /\ CacheStatus(r) = <<"HIT">> /\ Count(r, "Forward") = 0
      \/ o = "miss" /\ ServedMiss(r)
      \/ o = "400" /\ IsErrorResponse(r) /\ resp[r].status = StatusBadRequest
                   /\ calls[r] = <<>>
      \/ o = "502" /\ IsErrorResponse(r) /\ resp[r].status = StatusBadGateway
                   /\ UpstreamFailed(r) }

\* C29: in every state a request's collaborator calls are in the order exact
\* lookup, embed, vector search, forward, write-behind enqueue, each made at
\* most once (so the upstream at most once) and none before the stage it
\* follows was made; a request that has not ended has written nothing; a
\* request that has ended has exactly one of the outcomes hit, miss, 400 and
\* 502; and a response once written is never written again, nor a call added
\* after the end.
C29_PipelineOrder ==
  [][ \A r \in Requests :
        /\ InPipelineOrder(calls[r])'
        /\ Count(r, "Forward")' <= 1
        /\ pc'[r] # "done" => resp'[r] = NoResponse
        /\ pc'[r] = "done" => Cardinality(Outcomes(r)') = 1
        /\ resp[r] # NoResponse => resp'[r] = resp[r]
        /\ pc[r] = "done" => (pc'[r] = "done" /\ calls'[r] = calls[r]) ]_vars

\* C29 witness: one request went through all five calls and ended as a miss,
\* the other ended as a hit after the exact lookup alone.
C29_Witness ==
  \E r \in Requests, q \in Requests :
    /\ Done(r) /\ Outcomes(r) = {"miss"}
    /\ calls[r] = << "CheckExactMatch", "Generate", "SearchSimilar",
                     "Forward", "StoreAsync" >>
    /\ Done(q) /\ Outcomes(q) = {"hit"}
    /\ calls[q] = <<"CheckExactMatch">>

\* C30: a failed lookup stage falls through to the next stage.  After an
\* error of CheckExactMatch the request goes on to the embedding and, when
\* that gives a vector, to the vector search (which can serve it HIT: see the
\* witness).  After an error of SearchSimilar the request keeps its vector and
\* is forwarded, and an upstream answer with status 200 then hands an entry
\* with that vector to the write-behind path.
C30_FallThrough ==
  \A r \in Requests :
    /\ ExactErr(r)
         => /\ pc[r] \in {"embed", "search", "forward", "done"}
            /\ Done(r) => Count(r, "Generate") = 1
            /\ (Done(r) /\ ~IsNil(embeddingVec[r]))
                 => Count(r, "SearchSimilar") = 1
    /\ SearchErr(r)
         => /\ pc[r] \in {"forward", "done"}
            /\ ~IsNil(embeddingVec[r])
            /\ Done(r) => Count(r, "Forward") = 1
            /\ (Done(r) /\ UpstreamAnswered(r)
                  /\ Deref(upstream[r]).StatusCode = StatusOK)
                 => /\ Count(r, "StoreAsync") = 1
                    /\ tasks[r].state # "none"
                    /\ Deref(tasks[r].entry).embedding = Deref(embeddingVec[r])

\* C30 witness: the search of one request failed, the upstream answered it
\* with 200 and its write-behind stored the entry; the exact lookup of the
\* other request failed and its vector search then served it HIT.
C30_Witness ==
  \E r \in Requests, q \in Requests :
    /\ SearchErr(q) /\ Done(q)
    /\ Deref(upstream[q]).StatusCode = StatusOK
    /\ tasks[q].state = "stored"
    /\ ExactErr(r) /\ Done(r)
    /\ Count(r, "SearchSimilar") = 1
    /\ CacheStatus(r) = <<"HIT">>

\* ------------------------------------------- the exact lookup, by command

\* How many lookups are made, and how many times another client writes.
MaxLookups == 2
MaxForeignWrites == 2

\* The keys looked up, and the documents another client of the store may put
\* under them: an entry of the gateway, or a document that is not one.
LookupHashes == {ComputeQueryHash(QueryA), ComputeQueryHash(QueryB)}
ForeignDoc == [text |-> "not-an-entry"]
ClientDocs == {WarmStore[CacheKeyFromHash(ComputeQueryHash(QueryA))], ForeignDoc}

\* json.Unmarshal(data, &entries) succeeds.
Decodes(doc) == "query_hash" \in DOMAIN doc

\* The handler's state a lookup leaves alone.
lookupFrame ==
  << pc, bodyBytes, queryText, queryHash, exactMatch, embeddingVec, similar,
     upstream, resp, calls, tasks, globalStats, lastWriter, servedFrom,
     settled, ctxDone, startTime, panicked, compVars, ctr, life >>

\* CheckExactMatch, line 96: the key is derived.
BeginLookup(h) ==
  /\ lk.pc \in {"idle", "done"}
  /\ lk.round < MaxLookups
  /\ lk' = [NoLookup EXCEPT !.pc = "exists", !.round = lk.round + 1,
                            !.key = CacheKeyFromHash(h)]
  /\ UNCHANGED << lookupFrame, redis, now >>

\* CheckExactMatch, lines 98-106: EXISTS key.
LookupExists(fault) ==
  /\ lk.pc = "exists"
  /\ lk' = IF fault # "ok"
           THEN [lk EXCEPT !.pc = "done", !.fault = TRUE, !.err = TRUE,
                           !.present = Exists(redis, lk.key)]
           ELSE IF ~Exists(redis, lk.key)
           THEN [lk EXCEPT !.pc = "done", !.present = FALSE]
           ELSE [lk EXCEPT !.pc = "get", !.seen = TRUE, !.present = TRUE]
  /\ UNCHANGED << lookupFrame, redis, now >>

\* Mutation of LookupGet: a nil reply to JSON.GET is reported as an error.
LookupGet_NilIsError(fault) ==
  LET data == JSONGet(redis, lk.key)
      there == [lk EXCEPT !.pc = "done", !.present = Exists(redis, lk.key)]
  IN /\ lk.pc = "get"
     /\ lk' = IF fault # "ok" \/ IsNil(data)
              THEN [there EXCEPT !.fault = fault # "ok", !.err = TRUE]
              ELSE IF ~Decodes(Deref(data)[1])
              THEN [there EXCEPT !.undecodable = TRUE, !.err = TRUE]
              ELSE [there EXCEPT !.entry = Some(UnmarshalEntry(Deref(data)[1]))]
     /\ UNCHANGED << lookupFrame, redis, now >>

\* CheckExactMatch, lines 108-128, with RedisClient.JSONGet: JSON.GET key $,
\* a nil reply is no data and no error; the array is decoded.
LookupGet(fault) ==
  LET data == JSONGet(redis, lk.key)
      there == [lk EXCEPT !.pc = "done", !.present = Exists(redis, lk.key)]
  IN /\ lk.pc = "get"
     /\ lk' = IF fault # "ok"
              THEN [there EXCEPT !.fault = TRUE, !.err = TRUE]
              ELSE IF IsNil(data) THEN there
              ELSE IF ~Decodes(Deref(data)[1])
              THEN [there EXCEPT !.undecodable = TRUE, !.err = TRUE]
              ELSE IF Len(Deref(data)) = 0 THEN there
              ELSE [there EXCEPT !.entry = Some(UnmarshalEntry(Deref(data)[1]))]
     /\ UNCHANGED << lookupFrame, redis, now >>

\* Another client of the store puts a document under a key.
ClientSet(key, doc) ==
  /\ now <= MaxForeignWrites
  /\ redis' = [k \in DOMAIN redis \cup {key} |->
                 IF k = key THEN doc ELSE redis[k]]
  /\ now' = now + 1
  /\ UNCHANGED << lookupFrame, lk >>

\* Another client of the store deletes a key.
ClientDel(key) ==
  /\ key \in DOMAIN redis
  /\ redis' = [k \in DOMAIN redis \ {key} |-> redis[k]]
  /\ UNCHANGED << lookupFrame, lk, now >>

NextLookup ==
  \/ \E h \in LookupHashes : BeginLookup(h)
  \/ \E fault \in StoreFaults : LookupExists(fault)
  \/ \E fault \in StoreFaults : LookupGet(fault)
  \/ \E h \in LookupHashes, doc \in ClientDocs :
       ClientSet(CacheKeyFromHash(h), doc)
  \/ \E h \in LookupHashes : ClientDel(CacheKeyFromHash(h))

\* Exact lookups against a store that another client changes between the
\* commands of a lookup.
SpecLookup == Init /\ [][NextLookup]_vars

\* C31: a finished CheckExactMatch returns (nil, nil) when its last command
\* found no entry under the key, also when the key went away between EXISTS
\* and JSON.GET; it returns an error only when a command met a store fault or
\* the document does not decode; it never returns an entry and an error.
C31_NilOnMiss ==
  lk.pc = "done" =>
    /\ (~lk.present /\ ~lk.fault) => (IsNil(lk.entry) /\ ~lk.err)
    /\ lk.err => (lk.fault \/ lk.undecodable)
    /\ ~(lk.err /\ ~IsNil(lk.entry))

\* A lookup whose key was deleted after EXISTS answered 1 returned (nil, nil).
C31_Witness ==
  /\ lk.pc = "done"
  /\ lk.seen
  /\ ~lk.present
  /\ ~lk.fault
  /\ IsNil(lk.entry)
  /\ ~lk.err

\* C32: the entry a write-behind has stored for fingerprint f lies under
\* cache: followed by f without its sha256: prefix, carries that key as its
\* id and f as its query_hash, and is what CheckExactMatch(f) reads;
\* CacheKeyFromHash gives that key for f with and without the prefix.
C32_OneKeyDerivation ==
  \A r \in Requests :
    tasks[r].state = "stored" =>
      LET f == Deref(tasks[r].entry).query_hash
          hex == SubSeq(f, 2, Len(f))
          key == <<"cache:">> \o hex
      IN /\ f[1] = "sha256:"
         /\ key \in DOMAIN redis
         /\ redis[key].id = key
         /\ redis[key].query_hash = f
         /\ CheckExactMatch(redis, f, "ok").entry = Some(UnmarshalEntry(redis[key]))
         /\ CacheKeyFromHash(f) = key
         /\ CacheKeyFromHash(hex) = key

\* A write-behind has stored an entry and a later request's exact lookup
\* found it.
C32_Witness ==
  \E r, q \in Requests :
    /\ tasks[r].state = "stored"
    /\ q # r
    /\ queryHash[q] = Deref(tasks[r].entry).query_hash
    /\ ~IsNil(exactMatch[q].entry)
    /\ Deref(exactMatch[q].entry).id = CacheKeyFromHash(queryHash[q])

\* ------------------------------------------- the counters, by atomic operation

\* How many calls on the counters are made.
MaxCounterCalls == 3

\* The atomic operations of a function of stats.go, in program order.
AtomicOps(op, latencyMs) ==
  CASE op = "RecordHit" ->
         << [kind |-> "Add", field |-> "TotalRequests", val |-> 1],
            [kind |-> "Add", field |-> "CacheHits", val |-> 1],
            [kind |-> "Add", field |-> "TotalLatencyMs", val |-> latencyMs] >>
    [] op = "RecordMiss" ->
         << [kind |-> "Add", field |-> "TotalRequests", val |-> 1],
            [kind |-> "Add", field |-> "CacheMisses", val |-> 1],
            [kind |-> "Add", field |-> "TotalLatencyMs", val |-> latencyMs] >>
    [] op = "RecordError" ->
         << [kind |-> "Add", field |-> "TotalRequests", val |-> 1],
            [kind |-> "Add", field |-> "Errors", val |-> 1] >>
    [] op = "ResetStats" ->
         << [kind |-> "Store", field |-> "TotalRequests", val |-> 0],
            [kind |-> "Store", field |-> "CacheHits", val |-> 0],
            [kind |-> "Store", field |-> "CacheMisses", val |-> 0],
            [kind |-> "Store", field |-> "Errors", val |-> 0],
            [kind |-> "Store", field |-> "TotalLatencyMs", val |-> 0] >>

\* atomic.AddInt64 and atomic.StoreInt64 on a field of globalStats.
Atomic(st, o) ==
  [st EXCEPT ![o.field] = IF o.kind = "Add" THEN @ + o.val ELSE o.val]

\* The handler's state the counters' functions leave alone.
counterFrame ==
  << pc, bodyBytes, queryText, queryHash, exactMatch, embeddingVec, similar,
     upstream, resp, calls, tasks, redis, now, lastWriter, servedFrom,
     settled, ctxDone, startTime, panicked, compVars, lk, life >>

\* The functions of stats.go that change the counters, and the latency a
\* call passes.
CounterOps == {"RecordHit", "RecordMiss", "RecordError", "ResetStats"}
LatencyArg(op) == IF op \in {"RecordHit", "RecordMiss"} THEN 1 ELSE 0

\* A goroutine enters a function of stats.go.
BeginCounterCall(g, op, latencyMs) ==
  /\ ctr.calls[g].op = "none"
  /\ ctr.started < MaxCounterCalls
  /\ ctr' = [calls |-> [ctr.calls EXCEPT ![g] =
                          [op |-> op, at |-> 0, latencyMs |-> latencyMs]],
             started |-> ctr.started + 1]
  /\ UNCHANGED << counterFrame, globalStats >>

\* The goroutine's next atomic operation; after the last one the function
\* returns (ResetStats then writes StartTime, which is no counter).
AtomicStep(g) ==
  LET c == ctr.calls[g]
      ops == AtomicOps(c.op, c.latencyMs)
  IN /\ c.op # "none"
     /\ globalStats' = Atomic(globalStats, ops[c.at + 1])
     /\ ctr' = [ctr EXCEPT !.calls[g] =
                  IF c.at + 1 = Len(ops) THEN NoCounterCall
                  ELSE [c EXCEPT !.at = c.at + 1]]
     /\ UNCHANGED counterFrame

NextStats ==
  \/ \E g \in Goroutines, op \in CounterOps :
       BeginCounterCall(g, op, LatencyArg(op))
  \/ \E g \in Goroutines : AtomicStep(g)

\* Goroutines calling the counters' functions concurrently.
SpecStats == Init /\ [][NextStats]_vars

RecordInProgress ==
  \E g \in Goroutines :
    ctr.calls[g].op \in {"RecordHit", "RecordMiss", "RecordError"}

CountersAddUp ==
  globalStats.TotalRequests =
    globalStats.CacheHits + globalStats.CacheMisses + globalStats.Errors

\* C33: whenever no Record call is in progress, total_requests equals
\* cache_hits + cache_misses + errors, whatever the interleaving of RecordHit,
\* RecordMiss, RecordError and ResetStats.
C33_CountersConsistent == ~RecordInProgress => CountersAddUp

\* The counters add up once every call, ResetStats included, has returned.
StatsConsistentAtRest ==
  (\A g \in Goroutines : ctr.calls[g].op = "none") => CountersAddUp

\* ------------------------------------------------------- the process's end

\* The handler's state main's shutdown leaves alone.
shutdownFrame ==
  << pc, bodyBytes, queryText, queryHash, exactMatch, embeddingVec, similar,
     upstream, resp, calls, redis, globalStats, now, lastWriter, servedFrom,
     settled, ctxDone, startTime, panicked, compVars, lk, ctr >>

\* The server accepts a request: only until Shutdown closes the listeners.
Accept(r, b) == life = "serving" /\ Arrive(r, b)

\* A handler that has begun runs on while the server drains.
Handling == life \in {"serving", "draining"}

HandleExactLookup(r) == Handling /\ ExactLookup(r, "ok")
HandleEmbed(r, reply) == Handling /\ Embed(r, reply)
HandleSearch(r, key) == Handling /\ Search(r, "ok", key)
HandleForward(r, up) == Handling /\ Forward(r, up)

\* The goroutine StoreAsync started runs whenever the scheduler picks it,
\* as long as the process lives.  After the store client is closed its
\* JSON.SET fails.
RunWriteBehind(r) ==
  /\ life # "exited"
  /\ WriteBehind(r, IF life = "closed" THEN "transport" ELSE "ok")

\* main: a signal arrives on quit and server.Shutdown(ctx) is called.
Signal ==
  /\ life = "serving"
  /\ life' = "draining"
  /\ UNCHANGED << shutdownFrame, tasks >>

\* server.Shutdown returns once no connection is active (every handler has
\* returned); it knows nothing of the goroutines StoreAsync started.
ShutdownReturns ==
  /\ life = "draining"
  /\ \A r \in Requests : pc[r] \in {"idle", "done"}
  /\ life' = "stopped"
  /\ UNCHANGED << shutdownFrame, tasks >>

\* main returns: the deferred cacheService.Close() and redisClient.Close().
CloseStore ==
  /\ life = "stopped"
  /\ life' = "closed"
  /\ UNCHANGED << shutdownFrame, tasks >>

\* The process exits: every goroutine still running ends with it.
Exit ==
  /\ life = "closed"
  /\ life' = "exited"
  /\ tasks' = [r \in Requests |->
                 IF tasks[r].state = "pending"
                 THEN [tasks[r] EXCEPT !.state = "killed"] ELSE tasks[r]]
  /\ UNCHANGED shutdownFrame

NextShutdown ==
  \/ \E r \in Requests, b \in RequestBodies : Accept(r, b)
  \/ \E r \in Requests : HandleExactLookup(r)
  \/ \E r \in Requests, reply \in EmbeddingReplies : HandleEmbed(r, reply)
  \/ \E r \in Requests :
       /\ pc[r] = "search"
       /\ \E key \in SearchKeys(redis, Deref(embeddingVec[r])) :
            HandleSearch(r, key)
  \/ \E r \in Requests, up \in UpstreamOutcomes : HandleForward(r, up)
  \/ \E r \in Requests : RunWriteBehind(r)
  \/ Signal
  \/ ShutdownReturns
  \/ CloseStore
  \/ Exit

\* The gateway from start to exit, with a store that answers every command
\* until its connection is closed.
SpecShutdown == Init /\ [][NextShutdown]_vars

\* C34: once the process has closed the store connection, every write-behind
\* that was enqueued has completed its store write: no entry whose upstream
\* response was returned to a client is lost by the shutdown.
C34_NoEntryLost ==
  life \in {"closed", "exited"} =>
    \A r \in Requests : tasks[r].state \in {"none", "stored"}

\* The request was answered 400 "No user messages found in request" and no
\* collaborator was called for it.
RejectedNoUser(r) ==
  /\ pc[r] = "done"
  /\ resp[r].status = StatusBadRequest
  /\ IsErrorResponse(r)
  /\ resp[r].body[2] = "No user messages found in request"
  /\ calls[r] = <<>>

\* The request went on to the exact lookup.
ProceededToExact(r) ==
  \/ pc[r] = "exact"
  \/ (calls[r] # <<>> /\ calls[r][1] = "CheckExactMatch")

\* C35 as stated: every request whose envelope holds at least one user
\* message, whatever its contents, proceeds to the exact lookup.
C35_AsStated ==
  \A r \in Requests :
    (pc[r] # "idle" /\ bodyBytes[r].kind = "envelope"
       /\ UserMessages(bodyBytes[r].messages) # <<>>)
      => ProceededToExact(r)

\* C35: a decodable request is rejected with 400 "No user messages found in
\* request" exactly when its envelope holds no user message, or one user
\* message and that one empty (the query text is empty); every other
\* decodable request proceeds to the exact lookup, also one whose several
\* user messages are all empty.
C35_RejectedIffEmptyQuery ==
  \A r \in Requests :
    (pc[r] # "idle" /\ bodyBytes[r].kind = "envelope") =>
      LET users == UserMessages(bodyBytes[r].messages)
          noText == \/ users = <<>>
                    \/ (Len(users) = 1 /\ users[1].content = <<>>)
      IN /\ noText <=> RejectedNoUser(r)
         /\ ~noText <=> ProceededToExact(r)

\* One request with a single empty user message was rejected, and one with
\* two empty user messages had its exact lookup.
C35_Witness ==
  \E r, q \in Requests :
    /\ bodyBytes[r] = Envelope(<<Message("user", <<>>)>>)
    /\ RejectedNoUser(r)
    /\ bodyBytes[q] = Envelope(<<Message("user", <<>>), Message("user", <<>>)>>)
    /\ calls[q] # <<>>
    /\ calls[q][1] = "CheckExactMatch"

\* ------------------------------------------- the vector search on its own

\* The query vectors searched for, and what the store does with FT.SEARCH.
QueryVectors == { VectorOf(q, Dimensions) : q \in {QueryA, QueryB, QueryC} }
SearchAnswers == ReplyShapes \cup {"transport"}

\* SearchSimilar is called with a query vector; the store names a nearest
\* document and answers in one of its shapes.
CallSearchSimilar(vec, answer, key) ==
  /\ fn.name \in {"none", "SearchSimilar"}
  /\ Len(fn.outs) < MaxInvocations
  /\ fn' = [name |-> "SearchSimilar", arg |-> Nil,
            outs |-> Append(fn.outs,
                            [embedding |-> vec, answer |-> answer, key |-> key,
                             res |-> SearchSimilar(redis, vec, threshold,
                                                   answer, key)])]
  /\ UNCHANGED << handlerVars, mw, idx, procVars >>

NextSearch ==
  \E vec \in QueryVectors, answer \in SearchAnswers :
    \E key \in SearchKeys(redis, vec) : CallSearchSimilar(vec, answer, key)

\* The cache service's vector search against the store an earlier run filled.
SpecSearch == InitWarm /\ [][NextSearch]_vars

\* C36: SearchSimilar returns an entry only when the store reported for the
\* result a distance d with 1 - d above the threshold; a result whose score
\* field is absent or is no number is never returned as a hit.
C36_HitOnlyOnReportedScore ==
  (fn.name = "SearchSimilar") =>
    \A i \in DOMAIN fn.outs :
      LET call == fn.outs[i]
      IN ~IsNil(call.res.entry) =>
           /\ call.answer = "ok"
           /\ ~IsNil(call.key)
           /\ 100 - CosineDistance(redis[Deref(call.key)].embedding,
                                   call.embedding) > threshold

\* --------------------------------------------------- configuration at startup

\* An environment variable that is not set (os.Getenv gives "").
Unset == [numeric |-> FALSE, value |-> -1]

DefaultPort == 8080

\* What SIMILARITY_THRESHOLD and PORT can hold.  Thresholds in hundredths.
ThresholdTexts ==
  { Unset, NotANumber } \cup
  { NumberText(t) : t \in {-1, 0, 1, 50, 90, 95, 100, 101} }
PortTexts ==
  { Unset, NotANumber } \cup { NumberText(p) : p \in {0, 8080, 65536} }

\* Config.Validate: the error, or Nil.
Validate(c) ==
  IF c.SimilarityThreshold < 0 \/ c.SimilarityThreshold > 100
  THEN Some("SIMILARITY_THRESHOLD must be between 0.0 and 1.0")
  ELSE IF c.Port < 1 \/ c.Port > 65535
  THEN Some("PORT must be between 1 and 65535")
  ELSE Nil

\* config.Load under the environment env.
Load(env) ==
  LET thr == IF env.threshold = Unset THEN DefaultThreshold
             ELSE env.threshold.value
      port == IF env.port = Unset THEN DefaultPort ELSE env.port.value
      c == [SimilarityThreshold |-> thr, Port |-> port]
  IN IF env.threshold # Unset /\ ~env.threshold.numeric
     THEN [cfg |-> Nil, err |-> Some("SIMILARITY_THRESHOLD must be a valid float")]
     ELSE IF env.port # Unset /\ ~env.port.numeric
     THEN [cfg |-> Nil, err |-> Some("PORT must be a valid integer")]
     ELSE IF ~IsNil(Validate(c)) THEN [cfg |-> Nil, err |-> Validate(c)]
     ELSE [cfg |-> Some(c), err |-> Nil]

InitConfig ==
  /\ HandlerIdle
  /\ mw = NoBuffering
  /\ idx = NoBootstrap
  /\ ProcIdle
  /\ \E t \in ThresholdTexts, p \in PortTexts :
       fn = [name |-> "main", arg |-> [threshold |-> t, port |-> p],
             outs |-> <<>>]

\* main: cfg, err := config.Load(); on an error the process exits.
CallLoad ==
  /\ fn.name = "main"
  /\ fn.outs = <<>>
  /\ fn' = [fn EXCEPT !.outs = <<Load(fn.arg)>>]
  /\ UNCHANGED << handlerVars, mw, idx, procVars >>

\* main: handler.New(..., &handler.Config{SimilarityThreshold:
\* cfg.SimilarityThreshold}); the second output is the handler's threshold.
CallNew ==
  /\ fn.name = "main"
  /\ Len(fn.outs) = 1
  /\ ~IsNil(fn.outs[1].cfg)
  /\ fn' = [fn EXCEPT !.outs =
              Append(@, New(Some([SimilarityThreshold |->
                                    Deref(fn.outs[1].cfg).SimilarityThreshold])))]
  /\ UNCHANGED << handlerVars, mw, idx, procVars >>

NextConfig ==
  \/ CallLoad
  \/ CallNew

\* The start of the process: the configuration loaded and the handler
\* constructed from it.
SpecConfig == InitConfig /\ [][NextConfig]_vars

\* C37: for every SIMILARITY_THRESHOLD that validation accepts (0.0 to 1.0,
\* 0.0 included) the handler's threshold is the configured value; it is the
\* default 0.95 only when no value is configured.
C37_ConfiguredThresholdUsed ==
  (fn.name = "main" /\ Len(fn.outs) = 2) =>
    IF fn.arg.threshold = Unset THEN fn.outs[2] = 95
    ELSE fn.outs[2] = fn.arg.threshold.value

\* ------------------------------------------- the fingerprint of two requests

\* How many messages a compared request holds at most.
MaxCompared == 2

\* The decoded requests compared: model, temperature and messages.
ComparedContents == {<<"a">>, <<"b">>, <<"a", " ", "b">>}
ComparedMessages ==
  { Message(role, content) :
      role \in {"user", "system"}, content \in ComparedContents }
ComparedRequests ==
  { [model |-> m, temperature |-> t, messages |-> ms] :
      m \in {"gpt-4", "gpt-3.5-turbo"}, t \in {0, 1},
      ms \in UNION { [1..n -> ComparedMessages] : n \in 0..MaxCompared } }

\* Mutation of Fingerprint: the contents of all messages are hashed, whatever
\* their role.
Fingerprint_AllMessages(chatReq) ==
  LET text == ExtractQueryText_AllRoles(Some(chatReq))
  IN IF text = EmptyString THEN Nil ELSE Some(ComputeQueryHash(text))

\* ServeHTTP, lines 83-92: the fingerprint the request is given, Nil when it
\* is rejected for its empty query text.
Fingerprint(chatReq) ==
  LET text == ExtractQueryText(Some(chatReq))
  IN IF text = EmptyString THEN Nil ELSE Some(ComputeQueryHash(text))

\* Two requests are about to be served.
InitFingerprint ==
  /\ HandlerIdle
  /\ mw = NoBuffering
  /\ idx = NoBootstrap
  /\ ProcIdle
  /\ \E a, b \in ComparedRequests :
       fn = [name |-> "Fingerprint", arg |-> <<a, b>>, outs |-> <<>>]

\* The next of the two requests is given its fingerprint.
CallFingerprint ==
  /\ fn.name = "Fingerprint"
  /\ Len(fn.outs) < 2
  /\ fn' = [fn EXCEPT !.outs = Append(@, Fingerprint(fn.arg[Len(fn.outs) + 1]))]
  /\ UNCHANGED << handlerVars, mw, idx, procVars >>

NextFingerprint == CallFingerprint

SpecFingerprint == InitFingerprint /\ [][NextFingerprint]_vars

\* The contents of the user messages, in order.
UserContents(messages) ==
  LET users == UserMessages(messages)
  IN [i \in 1..Len(users) |-> users[i].content]

\* Both requests were given a fingerprint, and the same one.
SameFingerprint ==
  /\ Len(fn.outs) = 2
  /\ ~IsNil(fn.outs[1])
  /\ fn.outs[1] = fn.outs[2]

BothFingerprinted ==
  Len(fn.outs) = 2 /\ ~IsNil(fn.outs[1]) /\ ~IsNil(fn.outs[2])

\* C38 as stated: two requests are given the same fingerprint if and only if
\* their ordered lists of user-message contents are equal.
C38_AsStated ==
  (fn.name = "Fingerprint" /\ BothFingerprinted) =>
    (SameFingerprint <=>
       UserContents(fn.arg[1].messages) = UserContents(fn.arg[2].messages))

\* C38: two requests are given the same fingerprint if and only if their
\* query texts, the user-message contents joined by single spaces, are equal;
\* equal lists of user-message contents give the same fingerprint; model
\* name, temperature and non-user messages take no part.
C38_SameTextSameKey ==
  (fn.name = "Fingerprint" /\ BothFingerprinted) =>
    /\ SameFingerprint <=>
         SpaceSeparated(UserMessages(fn.arg[1].messages))
           = SpaceSeparated(UserMessages(fn.arg[2].messages))
    /\ UserContents(fn.arg[1].messages) = UserContents(fn.arg[2].messages)
         => SameFingerprint

\* A request with the single user message "a b" and a request with the user
\* messages "a" and "b", a system message, another model and another
\* temperature were given the same fingerprint.
C38_Witness ==
  /\ fn.name = "Fingerprint"
  /\ SameFingerprint
  /\ UserContents(fn.arg[1].messages) = << <<"a", " ", "b">> >>
  /\ UserContents(fn.arg[2].messages) = << <<"a">>, <<"b">> >>
  /\ fn.arg[1].model # fn.arg[2].model
  /\ fn.arg[1].temperature # fn.arg[2].temperature

\* ------------------------------------- the route: pre-stage, then the handler

\* The methods and bodies sent to /chat/completions and /v1/chat/completions,
\* which main routes to the same chain.  { c } stands for the envelope with
\* the one user message c.
RouteMethods == {"POST", "GET", "PUT", "DELETE"}
RouteBodies ==
  { WireBody(FALSE, <<>>, FALSE),
    WireBody(TRUE, <<>>, FALSE),
    WireBody(TRUE, <<"[", "]">>, FALSE),
    WireBody(TRUE, <<"[">>, FALSE),
    WireBody(TRUE, <<"{", "c", "}">>, FALSE) }

\* middleware.GetBufferedBody(r.Context()) as ServeHTTP sees it: nil when the
\* pre-stage put no body into the context.
GetBufferedBody(ctxBody) ==
  IF IsNil(ctxBody) THEN [kind |-> "nil", messages |-> <<>>]
  ELSE IF Deref(ctxBody) = <<>> THEN [kind |-> "empty", messages |-> <<>>]
  ELSE IF Deref(ctxBody)[1] = "{"
  THEN Envelope(<<Message("user", <<Deref(ctxBody)[2]>>)>>)
  ELSE [kind |-> "malformed", messages |-> <<>>]

\* The pre-stage has called next.ServeHTTP: the handler begins.
RouteServe == mw.phase = "next" /\ Arrive(1, GetBufferedBody(mw.ctxBody))

NextRoute ==
  \/ \E method \in RouteMethods, wire \in RouteBodies : Receive(method, wire)
  \/ RouteServe
  \/ \E fault \in StoreFaults : ExactLookup(1, fault)
  \/ \E reply \in EmbeddingReplies : Embed(1, reply)
  \/ \E fault \in StoreFaults :
       /\ pc[1] = "search"
       /\ \E key \in SearchKeys(redis, Deref(embeddingVec[1])) :
            Search(1, fault, key)
  \/ \E up \in UpstreamOutcomes : Forward(1, up)
  \/ \E fault \in StoreFaults : WriteBehind(1, fault)

\* One request through the chain main builds for the chat routes.
SpecRoute == Init /\ [][NextRoute]_vars

\* C39: a request whose method is not POST never causes a call to
\* CheckExactMatch, Generate, SearchSimilar, Forward or StoreAsync, and the
\* answer it gets is an error response.
C39_OnlyPostProcessed ==
  (mw.phase # "idle" /\ mw.method # "POST") =>
    /\ calls[1] = <<>>
    /\ tasks[1].state = "none"
    /\ pc[1] \in {"idle", "done"}
    /\ pc[1] = "done" => (resp[1].status >= 400 /\ IsErrorResponse(1))

\* A GET carrying a well-formed envelope was answered 400 without any call,
\* the pre-stage having called the handler.
C39_Witness ==
  /\ mw.method = "GET"
  /\ mw.sent = Some(WireBody(TRUE, <<"{", "c", "}">>, FALSE))
  /\ mw.nextCalls = 1
  /\ pc[1] = "done"
  /\ resp[1].status = StatusBadRequest
  /\ calls[1] = <<>>

====
